---- MODULE Spec2Model ----
(***************************************************************************)
(* Model of the Azul game engine (src/src/azul/game.py), its pure rules    *)
(* (src/src/azul/game_logic.py), the data containers (src/src/azul/models),*)
(* the strategies (src/src/azul/cpu.py) and the rating systems             *)
(* (src/src/azul/rating_systems).                                          *)
(*                                                                         *)
(* The specifications share the variables:                                 *)
(*   SpecCtor    the statements of AzulGame.__init__, one step at a time,  *)
(*               writing the attributes of the object under construction;  *)
(*   Spec        play_game on an object whose attributes hold the values   *)
(*               those statements assign, with the seats given by the      *)
(*               caller (the constructor's default, or main.py's human     *)
(*               first seat);                                              *)
(*   SpecLogic   calls of the GameLogic functions;                         *)
(*   SpecCpu     play_game with the seats of main.py's strategies;         *)
(*   SpecRating  calls of update_ratings on a rating system and its files. *)
(* Indices are 0-based as in the source; tuples are shifted by one.        *)
(***************************************************************************)
EXTENDS Integers, Sequences, FiniteSets, TLC

(***************************************************************************)
(* Bounds of the exploration (not program constants).                      *)
(***************************************************************************)
\* AzulGame(n) is constructed for n in 0..MaxCtorPlayers
MaxCtorPlayers == 4
\* random.shuffle returns one of the permutations 1..MaxSeed of ShuffleParams
MaxSeed == 3
\* the iteration order of a set of colors is one of HashOrderTable[1..MaxHashSeed]
MaxHashSeed == 2
\* a human seat is followed for this many typed moves
MaxHumanTurns == 1
\* play_game is followed for this many rounds
MaxRounds == 9
\* with more than two players play_game is followed for this many rounds
MaxManyRounds == 3
\* in free mode play_game is followed for this many rounds
MaxFreeRounds == 1
\* in free mode the typed column is one of the first MaxColChoice legal columns
MaxColChoice == 2
\* calculate_floor_penalty is called with 0..MaxFloorTiles tiles
MaxFloorTiles == 10
\* update_ratings is called up to MaxGames times on one rating system
MaxGames == 3
\* significant bits of a float (53 in the interpreter)
Precision == 12

(***************************************************************************)
(* Program constants.                                                      *)
(***************************************************************************)
\* the harnesses of the repository play two-player games
NumPlayers == 2
BoardSize == 5
TilesPerColor == 20
FactorySize == 4
Marker == "1"
None == "None"
Colors == <<"R", "B", "Y", "K", "W">>
ColorSet == {Colors[k] : k \in 1..Len(Colors)}
Modes == {"pattern", "free"}
FLOOR_PENALTIES == <<1, 1, 2, 2, 2, 3, 3>>
Rows == 0..(BoardSize - 1)

WallPatternRows ==
  << <<"B", "Y", "R", "K", "W">>,
     <<"W", "B", "Y", "R", "K">>,
     <<"K", "W", "B", "Y", "R">>,
     <<"R", "K", "W", "B", "Y">>,
     <<"Y", "R", "K", "W", "B">> >>

\* self.wall_pattern as __init__ sets it for the mode
WallPattern(m) ==
  [i \in Rows |-> [j \in Rows |->
     IF m = "pattern" THEN WallPatternRows[i + 1][j + 1] ELSE None]]

(***************************************************************************)
(* Python list helpers.                                                    *)
(***************************************************************************)
Min(a, b) == IF a < b THEN a ELSE b
Max(a, b) == IF a > b THEN a ELSE b

\* normalised slice bound: Python clamps k to 0..len and counts k < 0 from the end
SliceBound(s, k) == IF k < 0 THEN Max(Len(s) + k, 0) ELSE Min(k, Len(s))
\* s[:k]
SliceTo(s, k) == SubSeq(s, 1, SliceBound(s, k))
\* s[k:]
SliceFrom(s, k) == SubSeq(s, SliceBound(s, k) + 1, Len(s))

\* [t for t in s if t == c]
Only(s, c) == SelectSeq(s, LAMBDA t : t = c)
\* [t for t in s if t != c]
Without(s, c) == SelectSeq(s, LAMBDA t : t # c)
\* c in s
In(c, s) == \E k \in 1..Len(s) : s[k] = c

RECURSIVE SumSeq(_)
SumSeq(s) == IF s = <<>> THEN 0 ELSE s[1] + SumSeq(Tail(s))

RECURSIVE Repeat(_, _)
Repeat(x, n) == IF n <= 0 THEN <<>> ELSE <<x>> \o Repeat(x, n - 1)

RECURSIVE Flatten(_)
Flatten(ss) == IF ss = <<>> THEN <<>> ELSE ss[1] \o Flatten(Tail(ss))

RECURSIVE GCD(_, _)
GCD(a, b) == IF b = 0 THEN a ELSE GCD(b, a % b)

(***************************************************************************)
(* models/player.py, models/source.py                                      *)
(***************************************************************************)
\* Player.__post_init__
NewPlayer ==
  [pattern_lines |-> [i \in Rows |-> <<>>],
   wall          |-> [i \in Rows |-> [j \in Rows |-> None]],
   floor_line    |-> <<>>,
   score         |-> 0]

(***************************************************************************)
(* game_logic.py                                                           *)
(***************************************************************************)
\* truthiness of a wall cell: None is false, a color is true
Occupied(cell) == cell # None

\* number of iterations of one `while` loop of score_tile: the occupied
\* cells met from (row, col) in direction (dr, dc) before the first empty
\* cell or the board edge
RunLen_adjacent_only(wall, row, col, dr, dc) ==
  IF /\ row + dr \in Rows
     /\ col + dc \in Rows
     /\ Occupied(wall[row + dr][col + dc])
  THEN 1
  ELSE 0
RECURSIVE RunLen(_, _, _, _, _)
RunLen(wall, row, col, dr, dc) ==
  IF /\ row + dr \in Rows
     /\ col + dc \in Rows
     /\ Occupied(wall[row + dr][col + dc])
  THEN 1 + RunLen(wall, row + dr, col + dc, dr, dc)
  ELSE 0

score_tile(wall, row, col) ==
  LET left  == RunLen(wall, row, col, 0, -1)
      right == RunLen(wall, row, col, 0, 1)
      up    == RunLen(wall, row, col, -1, 0)
      down  == RunLen(wall, row, col, 1, 0)
      score == 1 + left + right + up + down
      horizontal_connection == left + right > 0
      vertical_connection   == up + down > 0
  IN IF ~horizontal_connection /\ ~vertical_connection THEN 1 ELSE score

calculate_end_game_bonus_cols_as_rows(wall) ==
  LET complete_rows ==
        Cardinality({i \in Rows : \A j \in Rows : wall[i][j] # None})
      complete_colors ==
        Cardinality({c \in ColorSet :
          Cardinality({ij \in Rows \X Rows : wall[ij[1]][ij[2]] = c}) = 5})
  IN <<complete_rows * 2, complete_rows * 7, complete_colors * 10>>
calculate_end_game_bonus(wall) ==
  LET complete_rows ==
        Cardinality({i \in Rows : \A j \in Rows : wall[i][j] # None})
      complete_cols ==
        Cardinality({j \in Rows : \A i \in Rows : wall[i][j] # None})
      complete_colors ==
        Cardinality({c \in ColorSet :
          Cardinality({ij \in Rows \X Rows : wall[ij[1]][ij[2]] = c}) = 5})
  IN <<complete_rows * 2, complete_cols * 7, complete_colors * 10>>

\* one iteration of the loop of get_valid_lines
LineValid_ignores_wall(player, color, m, i) ==
  LET line == player.pattern_lines[i]
  IN \/ Len(line) = 0
     \/ (line[1] = color /\ Len(line) < i + 1)
LineValid_full_line(player, color, m, i) ==
  LET line == player.pattern_lines[i]
  IN /\ \/ Len(line) = 0
        \/ line[1] = color
     /\ \A j \in Rows : player.wall[i][j] # color
LineValid(player, color, m, i) ==
  LET line == player.pattern_lines[i]
  IN /\ \/ Len(line) = 0
        \/ (line[1] = color /\ Len(line) < i + 1)
     /\ IF m = "pattern"
        THEN \A j \in Rows : player.wall[i][j] # color
        ELSE /\ \A j \in Rows : player.wall[i][j] # color
             /\ \A j \in Rows : player.wall[i][j] # color

\* the list get_valid_lines returns, in increasing index order
get_valid_lines_every_line(player, color, m) == [k \in 1..BoardSize |-> k - 1]
get_valid_lines(player, color, m) ==
  SelectSeq([k \in 1..BoardSize |-> k - 1],
            LAMBDA i : LineValid(player, color, m, i))

calculate_floor_penalty_off_by_one(num_tiles) ==
  SumSeq(SliceTo(FLOOR_PENALTIES, num_tiles + 1))
calculate_floor_penalty(num_tiles) ==
  SumSeq(SliceTo(FLOOR_PENALTIES, num_tiles))

\* max(valid_lines) of a non-empty increasing list
MaxOf(lines) == lines[Len(lines)]

(***************************************************************************)
(* random.shuffle and set iteration order: outcomes drawn from small sets. *)
(***************************************************************************)
\* seed |-> (stride, offset) of the index map of the permutation
ShuffleParams ==
  << [k |-> 1,  off |-> 0],
     [k |-> 21, off |-> 0],
     [k |-> 7,  off |-> 3],
     [k |-> 3,  off |-> 1],
     [k |-> 13, off |-> 2],
     [k |-> 37, off |-> 5] >>
Seeds == 1..MaxSeed

\* least stride >= k that is coprime to n, so that the index map is a bijection
RECURSIVE Stride(_, _)
Stride(k, n) == IF GCD(k, n) = 1 THEN k ELSE Stride(k + 1, n)

\* random.shuffle(s) under the given seed: a permutation of s
Shuffle(s, seed) ==
  LET n == Len(s)
      k == Stride(ShuffleParams[seed].k, n)
      off == ShuffleParams[seed].off
  IN [i \in 1..n |-> s[(((i - 1) * k + off) % n) + 1]]

\* orders in which a set of colors can be iterated
HashOrderTable ==
  << <<"R", "B", "Y", "K", "W">>,
     <<"W", "K", "Y", "B", "R">>,
     <<"Y", "W", "R", "K", "B">> >>
HashSeeds == 1..MaxHashSeed

\* list(set(tile.color for tile in tiles if tile.color != "1")) under order h
ColorsOf(tiles, h) == SelectSeq(HashOrderTable[h], LAMBDA c : In(c, tiles))

(***************************************************************************)
(* State.                                                                  *)
(***************************************************************************)
VARIABLES
  pc,                 \* position of play_game
  num_players,        \* len(self.players)
  mode,               \* self.mode
  ai,                 \* self.ai: seat |-> "dummy" (AzulCPU) or "human" (None)
  hashSeed,           \* the set iteration order of this process
  players,            \* self.players: seat |-> Player
  factories,          \* self.factories: 1..2n+1 |-> tiles of "Factory i"
  center,             \* self.center.tiles
  bag,                \* self.bag
  discard,            \* self.discard
  round_num,          \* self.round_num
  active_player,      \* self.active_player
  first_player_token, \* self.first_player_token
  wallIdx,            \* index of the loop over players in end_round
  humanTurns,         \* typed moves so far
  last,               \* the operation that produced this state, with its arguments
  prev,               \* the attributes of the game before that operation
  roundLog,           \* starter, turns and takes from the center of this round and the one before
  ctor,               \* position, arguments and locals of AzulGame.__init__
  obj,                \* attributes set so far on the object under construction
  call,               \* a call of a GameLogic function: name, arguments, result
  rs,                 \* the rating system: parameters, self.ratings, self.matchups
  files,              \* the ratings file and the results file
  upd                 \* position, arguments and history of update_ratings

gameVars == <<pc, num_players, mode, ai, hashSeed, players, factories, center,
              bag, discard, round_num, active_player, first_player_token,
              wallIdx, humanTurns, last, prev, roundLog>>
ctorVars == <<ctor, obj>>
ratingVars == <<rs, files, upd>>
logicVars == <<call, rs, files, upd>>
vars == <<pc, num_players, mode, ai, hashSeed, players, factories, center,
          bag, discard, round_num, active_player, first_player_token,
          wallIdx, humanTurns, last, prev, roundLog, ctor, obj, call,
          rs, files, upd>>

\* no rating system is in use
RatingUnused == rs = <<>> /\ files = <<>> /\ upd = <<>>

Seats == 0..(num_players - 1)
NumFactories == Len(factories)
\* source ids: 0 is the center, i in 1..NumFactories is "Factory i"
CenterId == 0
FactoryIds == 1..NumFactories
NoArgs == <<>>

Snapshot ==
  [pc |-> pc, players |-> players, factories |-> factories, center |-> center,
   bag |-> bag, discard |-> discard, round_num |-> round_num,
   active_player |-> active_player, first_player_token |-> first_player_token]

\* every operation records itself, its arguments and the state it started from
Record(name, args) ==
  /\ last' = [op |-> name, args |-> args]
  /\ prev' = Snapshot

(***************************************************************************)
(* AzulGame.__init__ (game.py 15-53) and AzulCPU.__init__ (cpu.py 36-50).  *)
(***************************************************************************)
\* the plain assignments of __init__ after self.ai, in order:
\* source line, attribute written, attributes of self read
CtorStmts ==
  << [line |-> 27, attr |-> "factories",          reads |-> {}],
     [line |-> 28, attr |-> "center",             reads |-> {}],
     [line |-> 29, attr |-> "bag",                reads |-> {}],
     [line |-> 30, attr |-> "discard",            reads |-> {}],
     [line |-> 32, attr |-> "round_num",          reads |-> {}],
     [line |-> 33, attr |-> "active_player",      reads |-> {}],
     [line |-> 34, attr |-> "first_player_token", reads |-> {}],
     [line |-> 35, attr |-> "mode",               reads |-> {}],
     [line |-> 36, attr |-> "verbose",            reads |-> {}],
     [line |-> 37, attr |-> "display",            reads |-> {}],
     [line |-> 38, attr |-> "logic",              reads |-> {}],
     [line |-> 39, attr |-> "colors",             reads |-> {}],
     [line |-> 42, attr |-> "center",             reads |-> {"center"}],
     [line |-> 44, attr |-> "wall_pattern",       reads |-> {}] >>

\* the value each assignment of __init__ gives its attribute
CtorValue(line, n, m, v) ==
  CASE line = 27 -> [i \in 1..(n * 2 + 1) |-> <<>>]
    [] line = 28 -> <<>>
    [] line = 29 -> <<>>
    [] line = 30 -> <<>>
    [] line = 32 -> 1
    [] line = 33 -> 0
    [] line = 34 -> 0
    [] line = 35 -> m
    [] line = 36 -> v
    [] line = 37 -> "Display"
    [] line = 38 -> "GameLogic"
    [] line = 39 -> Colors
    [] line = 42 -> <<Marker>>
    [] line = 44 -> WallPattern(m)

\* attributes of the game that AzulCPU.__init__ reads (cpu.py 47-48)
CpuInitReads(o) ==
  IF "mode" \in DOMAIN o /\ o["mode"] = "pattern"
  THEN {"mode", "wall_pattern"}
  ELSE {"mode"}

CtorIdle == [pc |-> "idle", n |-> 0, mode |-> "pattern", verbose |-> TRUE,
             tmp |-> <<>>, stmt |-> 0]

\* a caller evaluates AzulGame(n, mode, verbose)
CtorCall(n, m, v) ==
  /\ ctor.pc = "idle"
  /\ ctor' = [pc |-> "players", n |-> n, mode |-> m, verbose |-> v,
              tmp |-> <<>>, stmt |-> 0]
  /\ obj' = <<>>
  /\ UNCHANGED <<gameVars, logicVars>>

\* line 23: one iteration of the comprehension, then the assignment
CtorPlayers ==
  /\ ctor.pc = "players"
  /\ IF Len(ctor.tmp) < ctor.n
     THEN /\ ctor' = [ctor EXCEPT !.tmp = Append(@, NewPlayer)]
          /\ obj' = obj
     ELSE /\ obj' = ("players" :> ctor.tmp) @@ obj
          /\ ctor' = [ctor EXCEPT !.pc = "ai", !.tmp = <<>>]
  /\ UNCHANGED <<gameVars, logicVars>>

\* lines 24-26: one AzulCPU(self, "dummy") per iteration, then the assignment;
\* AzulCPU.__init__ raises AttributeError when it reads an attribute of the
\* game that is not set yet
CtorAI ==
  /\ ctor.pc = "ai"
  /\ IF Len(ctor.tmp) < ctor.n
     THEN IF CpuInitReads(obj) \subseteq DOMAIN obj
          THEN /\ ctor' = [ctor EXCEPT !.tmp = Append(@, "dummy")]
               /\ obj' = obj
          ELSE /\ ctor' = [ctor EXCEPT !.pc = "AttributeError"]
               /\ obj' = obj
     ELSE /\ obj' = ("ai" :> ctor.tmp) @@ obj
          /\ ctor' = [ctor EXCEPT !.pc = "assign", !.tmp = <<>>, !.stmt = 1]
  /\ UNCHANGED <<gameVars, logicVars>>

\* lines 27-53: the next plain assignment; after the last one __init__ returns
CtorAssign ==
  /\ ctor.pc = "assign"
  /\ LET st == CtorStmts[ctor.stmt]
     IN IF st.reads \subseteq DOMAIN obj
        THEN /\ obj' = (st.attr :> CtorValue(st.line, ctor.n, ctor.mode,
                                             ctor.verbose)) @@ obj
             /\ ctor' = IF ctor.stmt = Len(CtorStmts)
                        THEN [ctor EXCEPT !.pc = "returned"]
                        ELSE [ctor EXCEPT !.stmt = @ + 1]
        ELSE /\ ctor' = [ctor EXCEPT !.pc = "AttributeError"]
             /\ obj' = obj
  /\ UNCHANGED <<gameVars, logicVars>>

(***************************************************************************)
(* AzulGame: queries.                                                      *)
(***************************************************************************)
SourceTiles(fs, ctr, src) == IF src = CenterId THEN ctr ELSE fs[src]

\* is_center_valid_choice (game.py 247-255)
is_center_valid_choice(ctr) == Len(Without(ctr, Marker)) > 0

\* the condition of the while loop of play_round (game.py 91-94)
RoundContinues_factories_only(fs, ctr) ==
  {f \in 1..Len(fs) : fs[f] # <<>>} # {}
RoundContinues(fs, ctr) ==
  IF {f \in 1..Len(fs) : fs[f] # <<>>} # {} THEN TRUE
  ELSE is_center_valid_choice(ctr)

\* is_game_over (game.py 189-199)
is_game_over_first_player(ps) ==
  \E i \in Rows : \A j \in Rows : ps[0].wall[i][j] # None
is_game_over(ps) ==
  \E p \in DOMAIN ps : \E i \in Rows : \A j \in Rows : ps[p].wall[i][j] # None

(***************************************************************************)
(* AzulGame.execute_move (game.py 146-187) on the game g =                 *)
(* [players, factories, center, first_player_token]; src # CenterId is the *)
(* test `source != self.center` (a factory never equals the center: the    *)
(* names of the two Source records differ).                                *)
(***************************************************************************)
\* line 158: taken_tiles
taken_tiles_first(tiles, color) == SliceTo(Only(tiles, color), 1)
taken_tiles(tiles, color) == Only(tiles, color)

\* lines 161-169: the center after the tiles left the source
center_after_take_cleared(ctr, tiles, src, color) ==
  IF src # CenterId THEN ctr \o Without(tiles, color) ELSE <<>>
center_after_take(ctr, tiles, src, color) ==
  IF src # CenterId
  THEN ctr \o Without(tiles, color)
  ELSE Without(ctr, color)

\* lines 161, 165: the factories after the tiles left the source
factories_after_take(fs, src) ==
  IF src # CenterId THEN [fs EXCEPT ![src] = <<>>] ELSE fs

\* lines 172-174: the condition under which the first player token is taken
takes_token_any_source(src, ctr) == In(Marker, ctr)
takes_token_never(src, ctr) == FALSE
takes_token(src, ctr) == src = CenterId /\ In(Marker, ctr)

\* lines 181-187: the taken tiles go to the pattern line and the floor line
place_tiles_drop_overflow(pl, taken, line) ==
  IF line # -1
  THEN [pl EXCEPT !.pattern_lines[line] =
          @ \o SliceTo(taken, line + 1 - Len(pl.pattern_lines[line]))]
  ELSE [pl EXCEPT !.floor_line = @ \o taken]
place_tiles(pl, taken, line) ==
  IF line # -1
  THEN LET spaces == line + 1 - Len(pl.pattern_lines[line])
       IN [pl EXCEPT !.pattern_lines[line] = @ \o SliceTo(taken, spaces),
                     !.floor_line = @ \o SliceFrom(taken, spaces)]
  ELSE [pl EXCEPT !.floor_line = @ \o taken]

execute_move(g, p, src, color, line) ==
  LET tiles == SourceTiles(g.factories, g.center, src)
      taken == taken_tiles(tiles, color)
      center1 == center_after_take(g.center, tiles, src, color)
      token == takes_token(src, center1)
      pl1 == IF token
             THEN [g.players[p] EXCEPT !.floor_line = Append(@, Marker)]
             ELSE g.players[p]
  IN [players |-> [g.players EXCEPT ![p] = place_tiles(pl1, taken, line)],
      factories |-> factories_after_take(g.factories, src),
      center |-> IF token THEN Without(center1, Marker) ELSE center1,
      first_player_token |-> IF token THEN p ELSE g.first_player_token]

(***************************************************************************)
(* AzulCPU.dummy_algorithm and find_least_negative (cpu.py 70-86, 238-255) *)
(***************************************************************************)
\* the (source, color) pairs in the order of the two nested loops
RECURSIVE Candidates(_, _, _, _)
Candidates(srcs, fs, ctr, h) ==
  IF srcs = <<>> THEN <<>>
  ELSE LET cs == ColorsOf(SourceTiles(fs, ctr, srcs[1]), h)
       IN [k \in 1..Len(cs) |-> [source |-> srcs[1], color |-> cs[k]]]
          \o Candidates(Tail(srcs), fs, ctr, h)

\* self.game.factories + ([self.game.center] if is_center_valid_choice() else [])
DummySources(fs, ctr) ==
  [k \in 1..Len(fs) |-> k]
    \o (IF is_center_valid_choice(ctr) THEN <<CenterId>> ELSE <<>>)

\* raise RuntimeError("No valid moves available")
NoMove == [raises |-> "RuntimeError"]

find_least_negative_floor_default(fs, ctr, h) ==
  LET cands == Candidates(DummySources(fs, ctr), fs, ctr, h)
      count(k) == Len(Only(SourceTiles(fs, ctr, cands[k].source), cands[k].color))
  IN IF cands = <<>>
     THEN [source |-> CenterId, color |-> Colors[1], line |-> -1]
     ELSE LET best == CHOOSE k \in 1..Len(cands) :
                        /\ \A j \in 1..Len(cands) : count(k) <= count(j)
                        /\ \A j \in 1..(k - 1) : count(j) > count(k)
          IN [source |-> cands[best].source, color |-> cands[best].color,
              line |-> -1]
find_least_negative(fs, ctr, h) ==
  LET cands == Candidates(DummySources(fs, ctr), fs, ctr, h)
      count(k) == Len(Only(SourceTiles(fs, ctr, cands[k].source), cands[k].color))
  IN IF cands = <<>> THEN NoMove
     ELSE LET best == CHOOSE k \in 1..Len(cands) :
                        /\ \A j \in 1..Len(cands) : count(k) <= count(j)
                        /\ \A j \in 1..(k - 1) : count(j) > count(k)
          IN [source |-> cands[best].source, color |-> cands[best].color,
              line |-> -1]

dummy_algorithm_floor_only(player, fs, ctr, m, h) ==
  find_least_negative(fs, ctr, h)
dummy_algorithm_lowest_line(player, fs, ctr, m, h) ==
  LET cands == Candidates(DummySources(fs, ctr), fs, ctr, h)
      ok(k) == get_valid_lines(player, cands[k].color, m) # <<>>
  IN IF \E k \in 1..Len(cands) : ok(k)
     THEN LET first == CHOOSE k \in 1..Len(cands) :
                         ok(k) /\ \A j \in 1..(k - 1) : ~ok(j)
          IN [source |-> cands[first].source, color |-> cands[first].color,
              line |-> get_valid_lines(player, cands[first].color, m)[1]]
     ELSE find_least_negative(fs, ctr, h)
dummy_algorithm(player, fs, ctr, m, h) ==
  LET cands == Candidates(DummySources(fs, ctr), fs, ctr, h)
      ok(k) == get_valid_lines(player, cands[k].color, m) # <<>>
  IN IF \E k \in 1..Len(cands) : ok(k)
     THEN LET first == CHOOSE k \in 1..Len(cands) :
                         ok(k) /\ \A j \in 1..(k - 1) : ~ok(j)
          IN [source |-> cands[first].source, color |-> cands[first].color,
              line |-> MaxOf(get_valid_lines(player, cands[first].color, m))]
     ELSE find_least_negative(fs, ctr, h)

(***************************************************************************)
(* AzulGame.move_to_wall (game.py 299-355) on [player, discard]; cols[i]   *)
(* is the position in valid_cols of the column typed for line i.           *)
(***************************************************************************)
\* wall_pattern[i].index(color)
IndexOf(row, color) == CHOOSE j \in Rows : row[j] = color /\ \A k \in 0..(j - 1) : row[k] # color

\* valid_cols of the free-mode branch, in increasing order
valid_cols_any_empty(wall, i, color) ==
  SelectSeq([k \in 1..BoardSize |-> k - 1], LAMBDA j : wall[i][j] = None)
valid_cols(wall, i, color) ==
  SelectSeq([k \in 1..BoardSize |-> k - 1],
            LAMBDA j : /\ wall[i][j] = None
                       /\ \A k \in Rows : wall[k][j] # color)

\* the body of the loop for line i
WallLine_clears_every_line(st, i, m, cols) ==
  LET player == st.player
      line == player.pattern_lines[i]
  IN IF Len(line) # i + 1
     THEN [st EXCEPT !.player.pattern_lines[i] = <<>>]
     ELSE LET color == line[1]
              col == IndexOf(WallPattern("pattern")[i], color)
              wall2 == [player.wall EXCEPT ![i][col] = color]
          IN [player |-> [player EXCEPT
                            !.wall = wall2,
                            !.score = @ + score_tile(wall2, i, col),
                            !.pattern_lines[i] = <<>>],
              discard |-> st.discard \o line]
WallLine_keeps_wall_tile(st, i, m, cols) ==
  LET player == st.player
      line == player.pattern_lines[i]
  IN IF Len(line) # i + 1 THEN st
     ELSE LET color == line[1]
              vc == valid_cols(player.wall, i, color)
              placed == m = "pattern" \/ vc # <<>>
              col == IF m = "pattern"
                     THEN IndexOf(WallPattern(m)[i], color)
                     ELSE vc[Min(cols[i], Len(vc))]
              wall2 == [player.wall EXCEPT ![i][col] = color]
          IN IF placed
             THEN [player |-> [player EXCEPT
                                 !.wall = wall2,
                                 !.score = @ + score_tile(wall2, i, col),
                                 !.pattern_lines[i] = <<>>],
                   discard |-> st.discard \o Tail(line)]
             ELSE [player |-> [player EXCEPT
                                 !.floor_line = @ \o line,
                                 !.pattern_lines[i] = <<>>],
                   discard |-> st.discard]
WallLine(st, i, m, cols) ==
  LET player == st.player
      line == player.pattern_lines[i]
  IN IF Len(line) # i + 1 THEN st
     ELSE LET color == line[1]
              vc == valid_cols(player.wall, i, color)
              placed == m = "pattern" \/ vc # <<>>
              col == IF m = "pattern"
                     THEN IndexOf(WallPattern(m)[i], color)
                     ELSE vc[Min(cols[i], Len(vc))]
              wall2 == [player.wall EXCEPT ![i][col] = color]
          IN IF placed
             THEN [player |-> [player EXCEPT
                                 !.wall = wall2,
                                 !.score = @ + score_tile(wall2, i, col),
                                 !.pattern_lines[i] = <<>>],
                   discard |-> st.discard \o line]
             ELSE [player |-> [player EXCEPT
                                 !.floor_line = @ \o line,
                                 !.pattern_lines[i] = <<>>],
                   discard |-> st.discard]

RECURSIVE WallLines(_, _, _, _)
WallLines(st, i, m, cols) ==
  IF i >= BoardSize THEN st
  ELSE WallLines(WallLine(st, i, m, cols), i + 1, m, cols)

\* line 353: player.score = max(0, player.score - points_lost)
score_after_penalty_unfloored(score, points_lost) == score - points_lost
score_after_penalty(score, points_lost) == Max(0, score - points_lost)

move_to_wall_discards_nothing(player, dis, m, cols) ==
  LET st == WallLines([player |-> player, discard |-> dis], 0, m, cols)
      points_lost == calculate_floor_penalty(Len(st.player.floor_line))
  IN [player |-> [st.player EXCEPT
                    !.score = score_after_penalty(@, points_lost),
                    !.floor_line = <<>>],
      discard |-> dis]
move_to_wall(player, dis, m, cols) ==
  LET st == WallLines([player |-> player, discard |-> dis], 0, m, cols)
      points_lost == calculate_floor_penalty(Len(st.player.floor_line))
  IN [player |-> [st.player EXCEPT
                    !.score = score_after_penalty(@, points_lost),
                    !.floor_line = <<>>],
      discard |-> st.discard \o st.player.floor_line]

(***************************************************************************)
(* AzulCPU: greedy, smart, strategic and minmax (cpu.py 88-236, 257-311,   *)
(* 467-657).  A move under consideration is [source, color, line, n,       *)
(* spaces]: n tiles of the color in the source, spaces free on the line.    *)
(***************************************************************************)
Abs(x) == IF x < 0 THEN -x ELSE x

\* float("inf") next to tile counts
Inf == BoardSize * TilesPerColor

\* best_move = None
NoBest == [none |-> TRUE]

\* self.game.factories + [self.game.center]
AllSources(fs) == [k \in 1..Len(fs) |-> k] \o <<CenterId>>

\* the (source, color, line_index) triples in the order of the three nested
\* loops over srcs
MoveList(srcs, player, fs, ctr, m, h) ==
  LET cands == Candidates(srcs, fs, ctr, h)
      lines(k) == get_valid_lines(player, cands[k].color, m)
      n(k) == Len(Only(SourceTiles(fs, ctr, cands[k].source), cands[k].color))
  IN Flatten([k \in 1..Len(cands) |->
       [l \in 1..Len(lines(k)) |->
          [source |-> cands[k].source, color |-> cands[k].color,
           line |-> lines(k)[l], n |-> n(k),
           spaces |-> lines(k)[l] + 1 - Len(player.pattern_lines[lines(k)[l]])]]])

\* (source, color, line_index)
Triple(mv) == [source |-> mv.source, color |-> mv.color, line |-> mv.line]

\* the body of the innermost loop of greedy_algorithm (cpu.py 101-111); the
\* loops below run the iterations lo..hi in order, the first half before the
\* second, each iteration evaluated before the next one starts
greedy_step_first_fit(acc, mv) ==
  IF mv.n <= mv.spaces /\ acc.best = NoBest
  THEN [best |-> Triple(mv), largest |-> mv.n, least |-> 0]
  ELSE acc
greedy_step(acc, mv) ==
  IF mv.n <= mv.spaces
  THEN IF mv.n > acc.largest
       THEN [best |-> Triple(mv), largest |-> mv.n, least |-> 0]
       ELSE IF acc.least # 0 /\ Abs(mv.spaces - mv.n) < acc.least
            THEN [acc EXCEPT !.least = Abs(mv.spaces - mv.n), !.best = Triple(mv)]
            ELSE acc
  ELSE acc

RECURSIVE greedy_loop(_, _, _, _)
greedy_loop(moves, lo, hi, acc) ==
  IF lo > hi THEN acc
  ELSE IF lo = hi THEN greedy_step(acc, moves[lo])
  ELSE LET mid == (lo + hi) \div 2
           half == greedy_loop(moves, lo, mid, acc)
       IN IF half = half THEN greedy_loop(moves, mid + 1, hi, half) ELSE half

greedy_algorithm(player, fs, ctr, m, h) ==
  LET moves == MoveList(AllSources(fs), player, fs, ctr, m, h)
      acc == greedy_loop(moves, 1, Len(moves),
                         [best |-> NoBest, largest |-> 0, least |-> Inf])
  IN IF acc.best = NoBest THEN find_least_negative(fs, ctr, h) ELSE acc.best

\* check_adjacents with the column given (cpu.py 297-304)
adjacent_at(wall, row, col) ==
  [horizontal |-> \/ (col > 0 /\ Occupied(wall[row][col - 1]))
                  \/ (col < 4 /\ Occupied(wall[row][col + 1])),
   vertical   |-> \/ (row > 0 /\ Occupied(wall[row - 1][col]))
                  \/ (row < 4 /\ Occupied(wall[row + 1][col]))]

\* check_adjacents without a column (cpu.py 279-304): the column of the wall
\* pattern, or the first legal column in free mode; (False, False) if none
check_adjacents(player, row, color, m) ==
  IF m = "pattern"
  THEN adjacent_at(player.wall, row, IndexOf(WallPattern(m)[row], color))
  ELSE LET vc == valid_cols(player.wall, row, color)
       IN IF vc = <<>> THEN [horizontal |-> FALSE, vertical |-> FALSE]
          ELSE adjacent_at(player.wall, row, vc[1])

\* has_adjacent (cpu.py 257-277)
has_adjacent(player, line_index, color, m) ==
  LET adj == check_adjacents(player, line_index, color, m)
  IN adj.horizontal \/ adj.vertical

\* is_move_in_diagonal (cpu.py 306-311); in free mode an int is compared
\* with a str
is_move_in_diagonal(line, color, m) ==
  IF m = "pattern" THEN line = IndexOf(WallPattern(m)[line], color) ELSE FALSE

\* find_least_overflow (cpu.py 219-236)
RECURSIVE least_overflow_loop(_, _, _, _)
least_overflow_loop(moves, lo, hi, acc) ==
  IF lo > hi THEN acc
  ELSE IF lo = hi
       THEN IF Abs(moves[lo].spaces - moves[lo].n) < acc.least
            THEN [least |-> Abs(moves[lo].spaces - moves[lo].n),
                  best |-> Triple(moves[lo])]
            ELSE acc
  ELSE LET mid == (lo + hi) \div 2
           half == least_overflow_loop(moves, lo, mid, acc)
       IN IF half = half THEN least_overflow_loop(moves, mid + 1, hi, half)
          ELSE half

find_least_overflow(player, fs, ctr, m, h) ==
  LET moves == MoveList(AllSources(fs), player, fs, ctr, m, h)
  IN least_overflow_loop(moves, 1, Len(moves),
                         [least |-> Inf, best |-> NoBest]).best

\* the body of the innermost loop of smart_algorithm (cpu.py 133-149)
smart_step_most_tiles(acc, mv, player, m) ==
  IF mv.n <= mv.spaces
  THEN LET whitespace == mv.spaces - mv.n
           a1 == [acc EXCEPT !.move_found = TRUE]
           a2 == IF whitespace < a1.least_whitespace
                 THEN [a1 EXCEPT !.least_whitespace = whitespace,
                                 !.most_tiles = 0]
                 ELSE a1
       IN IF whitespace <= a1.least_whitespace /\ mv.n > a2.most_tiles
          THEN [a2 EXCEPT !.best = Triple(mv), !.most_tiles = mv.n]
          ELSE IF whitespace <= a1.least_whitespace THEN a2 ELSE a1
  ELSE acc
smart_step(acc, mv, player, m) ==
  IF mv.n <= mv.spaces
  THEN LET whitespace == mv.spaces - mv.n
           a1 == [acc EXCEPT !.move_found = TRUE]
           a2 == IF whitespace < a1.least_whitespace
                 THEN [a1 EXCEPT !.least_whitespace = whitespace,
                                 !.one_adjacent_move = FALSE,
                                 !.most_tiles = 0]
                 ELSE a1
       IN IF whitespace <= a1.least_whitespace
          THEN IF ~a2.one_adjacent_move
               THEN IF has_adjacent(player, mv.line, mv.color, m)
                    THEN [a2 EXCEPT !.one_adjacent_move = TRUE, !.best = Triple(mv)]
                    ELSE IF mv.n > a2.most_tiles
                         THEN [a2 EXCEPT !.best = Triple(mv), !.most_tiles = mv.n]
                         ELSE a2
               ELSE a2
          ELSE a1
  ELSE acc

RECURSIVE smart_loop(_, _, _, _, _, _)
smart_loop(moves, lo, hi, acc, player, m) ==
  IF lo > hi THEN acc
  ELSE IF lo = hi THEN smart_step(acc, moves[lo], player, m)
  ELSE LET mid == (lo + hi) \div 2
           half == smart_loop(moves, lo, mid, acc, player, m)
       IN IF half = half THEN smart_loop(moves, mid + 1, hi, half, player, m)
          ELSE half

\* the two fallbacks at the end of smart_algorithm and strategic_algorithm
fallback(acc, player, fs, ctr, m, h) ==
  LET best1 == IF ~acc.move_found
               THEN find_least_overflow(player, fs, ctr, m, h)
               ELSE acc.best
  IN IF best1 = NoBest THEN find_least_negative(fs, ctr, h) ELSE best1

smart_algorithm(player, fs, ctr, m, h) ==
  LET moves == MoveList(AllSources(fs), player, fs, ctr, m, h)
  IN fallback(smart_loop(moves, 1, Len(moves),
                         [best |-> NoBest, least_whitespace |-> Inf,
                          most_tiles |-> 0, move_found |-> FALSE,
                          one_adjacent_move |-> FALSE],
                         player, m),
              player, fs, ctr, m, h)

\* the body of the innermost loop of strategic_algorithm (cpu.py 176-209)
strategic_step_no_lock(acc, mv, player, m, round) ==
  IF mv.n <= mv.spaces
  THEN LET whitespace == mv.spaces - mv.n
           adj == check_adjacents(player, mv.line, mv.color, m)
           a1 == [acc EXCEPT !.move_found = TRUE]
           a2 == IF whitespace < a1.least_whitespace
                 THEN [a1 EXCEPT !.least_whitespace = whitespace,
                                 !.diagonal_move = FALSE,
                                 !.two_adjacent_move = FALSE,
                                 !.one_adjacent_move = FALSE,
                                 !.most_tiles = 0]
                 ELSE a1
           a3 == IF round = 1 /\ is_move_in_diagonal(mv.line, mv.color, m)
                 THEN [a2 EXCEPT !.best = Triple(mv)]
                 ELSE a2
           a4 == IF ~a3.two_adjacent_move /\ adj.horizontal /\ adj.vertical
                 THEN [a3 EXCEPT !.best = Triple(mv), !.two_adjacent_move = TRUE]
                 ELSE a3
           a5 == IF ~a4.two_adjacent_move /\ ~a4.one_adjacent_move
                 THEN IF adj.horizontal \/ adj.vertical
                      THEN [a4 EXCEPT !.best = Triple(mv), !.one_adjacent_move = TRUE]
                      ELSE IF mv.n > a4.most_tiles
                           THEN [a4 EXCEPT !.best = Triple(mv), !.most_tiles = mv.n]
                           ELSE a4
                 ELSE a4
       IN IF whitespace <= a1.least_whitespace
          THEN IF ~a2.diagonal_move THEN a5 ELSE a2
          ELSE a1
  ELSE acc
strategic_step(acc, mv, player, m, round) ==
  IF mv.n <= mv.spaces
  THEN LET whitespace == mv.spaces - mv.n
           adj == check_adjacents(player, mv.line, mv.color, m)
           a1 == [acc EXCEPT !.move_found = TRUE]
           a2 == IF whitespace < a1.least_whitespace
                 THEN [a1 EXCEPT !.least_whitespace = whitespace,
                                 !.diagonal_move = FALSE,
                                 !.two_adjacent_move = FALSE,
                                 !.one_adjacent_move = FALSE,
                                 !.most_tiles = 0]
                 ELSE a1
           a3 == IF round = 1 /\ is_move_in_diagonal(mv.line, mv.color, m)
                 THEN [a2 EXCEPT !.best = Triple(mv), !.diagonal_move = TRUE]
                 ELSE a2
           a4 == IF ~a3.two_adjacent_move /\ adj.horizontal /\ adj.vertical
                 THEN [a3 EXCEPT !.best = Triple(mv), !.two_adjacent_move = TRUE]
                 ELSE a3
           a5 == IF ~a4.two_adjacent_move /\ ~a4.one_adjacent_move
                 THEN IF adj.horizontal \/ adj.vertical
                      THEN [a4 EXCEPT !.best = Triple(mv), !.one_adjacent_move = TRUE]
                      ELSE IF mv.n > a4.most_tiles
                           THEN [a4 EXCEPT !.best = Triple(mv), !.most_tiles = mv.n]
                           ELSE a4
                 ELSE a4
       IN IF whitespace <= a1.least_whitespace
          THEN IF ~a2.diagonal_move THEN a5 ELSE a2
          ELSE a1
  ELSE acc

RECURSIVE strategic_loop(_, _, _, _, _, _, _)
strategic_loop(moves, lo, hi, acc, player, m, round) ==
  IF lo > hi THEN acc
  ELSE IF lo = hi THEN strategic_step(acc, moves[lo], player, m, round)
  ELSE LET mid == (lo + hi) \div 2
           half == strategic_loop(moves, lo, mid, acc, player, m, round)
       IN IF half = half
          THEN strategic_loop(moves, mid + 1, hi, half, player, m, round)
          ELSE half

strategic_algorithm(player, fs, ctr, m, h, round) ==
  LET moves == MoveList(AllSources(fs), player, fs, ctr, m, h)
  IN fallback(strategic_loop(moves, 1, Len(moves),
                             [best |-> NoBest, least_whitespace |-> Inf,
                              most_tiles |-> 0, move_found |-> FALSE,
                              diagonal_move |-> FALSE,
                              one_adjacent_move |-> FALSE,
                              two_adjacent_move |-> FALSE],
                             player, m, round),
              player, fs, ctr, m, h)

\* the keys of color_counts in insertion order (cpu.py 485-488): the colors
\* of the tiles in order of first appearance, the marker left out
RECURSIVE FirstSeen(_)
FirstSeen(tiles) ==
  IF tiles = <<>> THEN <<>>
  ELSE LET rest == FirstSeen(SliceTo(tiles, Len(tiles) - 1))
           c == tiles[Len(tiles)]
       IN IF c = Marker \/ In(c, rest) THEN rest ELSE Append(rest, c)

\* the pattern lines get_efficient_moves offers for a color (cpu.py 492-506)
efficient_lines(state, color, m) ==
  IF m = "pattern"
  THEN SelectSeq([k \in 1..BoardSize |-> k - 1],
         LAMBDA i :
           /\ ~Occupied(state.wall[i][IndexOf(WallPattern(m)[i], color)])
           /\ \/ state.pattern_lines[i] = <<>>
              \/ /\ state.pattern_lines[i][1] = color
                 /\ Len(state.pattern_lines[i]) < i + 1)
  ELSE <<>>

\* get_efficient_moves (cpu.py 467-512): moves grows over both loops, and
\* the floor move of a color is added while moves is empty or for few tiles
RECURSIVE efficient_loop(_, _, _, _, _, _, _)
efficient_loop(srcs, colors, moves, state, fs, ctr, m) ==
  IF srcs = <<>> THEN moves
  ELSE IF colors = <<>>
       THEN IF Len(srcs) = 1 THEN moves
            ELSE efficient_loop(Tail(srcs),
                                FirstSeen(SourceTiles(fs, ctr, srcs[2])),
                                moves, state, fs, ctr, m)
       ELSE LET color == colors[1]
                count == Len(Only(SourceTiles(fs, ctr, srcs[1]), color))
                lines == efficient_lines(state, color, m)
                moves1 == moves \o
                  [l \in 1..Len(lines) |->
                     [source |-> srcs[1], color |-> color,
                      line |-> lines[l], n |-> count]]
                moves2 == IF moves1 = <<>> \/ count <= 2
                          THEN Append(moves1, [source |-> srcs[1], color |-> color,
                                               line |-> -1, n |-> count])
                          ELSE moves1
            IN efficient_loop(srcs, Tail(colors), moves2, state, fs, ctr, m)

get_efficient_moves(state, srcs, fs, ctr, m) ==
  IF srcs = <<>> THEN <<>>
  ELSE efficient_loop(srcs, FirstSeen(SourceTiles(fs, ctr, srcs[1])), <<>>,
                      state, fs, ctr, m)

\* AzulGame(n, ...) run to its end (game.py 23-26): AzulCPU.__init__ reads
\* the game when only self.players is set
CtorOutcome(n) ==
  IF n > 0 /\ ~(CpuInitReads("players" :> <<>>) \subseteq {"players"})
  THEN "AttributeError"
  ELSE "returned"

\* the objects of minmax's simulation that are live objects of the game
\* rather than copies: new_player and new_opponent are new Player objects
\* with new lists of new Tile objects (cpu.py 568-582)
SharedWithLive_new_player == {"new_player"}
SharedWithLive == {}

\* "Apply our move" on new_player (cpu.py 585-601)
simulated_own_move(player, fs, ctr, mv) ==
  place_tiles(player, taken_tiles(SourceTiles(fs, ctr, mv.source), mv.color),
              mv.line)

\* minmax_algorithm (cpu.py 542-657): the move it returns or the exception
\* it raises, and the players of the live game when it ends.  The first
\* iteration of its loop applies the move to new_player and then evaluates
\* AzulGame(2, ...) outside the try block (line 616).
minmax_algorithm(ps, a, ais, fs, ctr, m, h, round) ==
  LET player == ps[a]
      opponent_idx == (a + 1) % Cardinality(DOMAIN ps)
      srcs == DummySources(fs, ctr)
      moves == get_efficient_moves(player, srcs, fs, ctr, m)
  IN IF ais[opponent_idx] = "human"
     THEN [result |-> strategic_algorithm(player, fs, ctr, m, h, round),
           players |-> ps]
     ELSE IF srcs = <<>> \/ moves = <<>>
          THEN [result |-> find_least_negative(fs, ctr, h), players |-> ps]
          ELSE CASE CtorOutcome(2) = "AttributeError" ->
                 [result |-> [raises |-> "AttributeError"],
                  players |-> IF "new_player" \in SharedWithLive
                              THEN [ps EXCEPT ![a] =
                                      simulated_own_move(player, fs, ctr, moves[1])]
                              ELSE ps]

\* choose_move (cpu.py 52-68) of the AzulCPU of the active seat
choose_move(ps, a, ais, fs, ctr, m, h, round) ==
  CASE ais[a] = "dummy" ->
         [result |-> dummy_algorithm(ps[a], fs, ctr, m, h), players |-> ps]
    [] ais[a] = "greedy" ->
         [result |-> greedy_algorithm(ps[a], fs, ctr, m, h), players |-> ps]
    [] ais[a] = "smart" ->
         [result |-> smart_algorithm(ps[a], fs, ctr, m, h), players |-> ps]
    [] ais[a] = "strategic" ->
         [result |-> strategic_algorithm(ps[a], fs, ctr, m, h, round),
          players |-> ps]
    [] ais[a] = "minmax" ->
         minmax_algorithm(ps, a, ais, fs, ctr, m, h, round)

(***************************************************************************)
(* Dealing (game.py 59-60, 367-368).                                       *)
(***************************************************************************)
\* [self.bag.pop() for _ in range(4) if self.bag] for each factory in turn:
\* factory f receives the next FactorySize tiles from the end of the bag
Deal(b, nf) ==
  [factories |->
     [f \in 1..nf |->
        LET start == Len(b) - (f - 1) * FactorySize
            cnt == Max(0, Min(FactorySize, start))
        IN [k \in 1..cnt |-> b[start - k + 1]]],
   bag |-> SubSeq(b, 1, Max(0, Len(b) - nf * FactorySize))]

(***************************************************************************)
(* Initial states.                                                         *)
(***************************************************************************)
\* seats: every seat an AzulCPU (the constructor's default, game.py 24-26),
\* or the first seat None, a human, and the rest AzulCPUs (main.py 63-66)
AiConfigs(n) ==
  {[s \in 0..(n - 1) |-> "dummy"],
   [s \in 0..(n - 1) |-> IF s = 0 THEN "human" ELSE "dummy"]}

\* no GameLogic function has been called
NoCall == [fn |-> "none"]

NoOp == [op |-> "init", args |-> NoArgs]

NoRound == [starter |-> 0, center_takes |-> 0, turns |-> 0,
            prev_starter |-> 0, prev_center_takes |-> 0]

\* the attributes as the statements of __init__ assign them
Constructed(n, m) ==
  /\ num_players = n
  /\ mode = m
  /\ players = [s \in 0..(n - 1) |-> NewPlayer]
  /\ factories = CtorValue(27, n, m, FALSE)
  /\ center = CtorValue(42, n, m, FALSE)
  /\ bag = CtorValue(29, n, m, FALSE)
  /\ discard = CtorValue(30, n, m, FALSE)
  /\ round_num = CtorValue(32, n, m, FALSE)
  /\ active_player = CtorValue(33, n, m, FALSE)
  /\ first_player_token = CtorValue(34, n, m, FALSE)

Init ==
  /\ pc = "new"
  /\ \E m \in Modes : Constructed(NumPlayers, m)
  /\ ai \in AiConfigs(NumPlayers)
  /\ hashSeed \in HashSeeds
  /\ wallIdx = 0
  /\ humanTurns = 0
  /\ last = NoOp
  /\ prev = Snapshot
  /\ roundLog = NoRound
  /\ ctor = CtorIdle
  /\ obj = <<>>
  /\ call = NoCall
  /\ RatingUnused

InitCtor ==
  /\ pc = "new"
  /\ Constructed(NumPlayers, "pattern")
  /\ ai = [s \in 0..(NumPlayers - 1) |-> "dummy"]
  /\ hashSeed = 1
  /\ wallIdx = 0
  /\ humanTurns = 0
  /\ last = NoOp
  /\ prev = Snapshot
  /\ roundLog = NoRound
  /\ ctor = CtorIdle
  /\ obj = <<>>
  /\ call = NoCall
  /\ RatingUnused

(***************************************************************************)
(* play_game (game.py 63-86) and the operations it calls.                  *)
(***************************************************************************)
Game == [players |-> players, factories |-> factories, center |-> center,
         first_player_token |-> first_player_token]

RoundCap ==
  IF mode = "free" THEN MaxFreeRounds
  ELSE IF num_players > NumPlayers THEN MaxManyRounds ELSE MaxRounds

\* setup_game (game.py 55-61)
SetupGame(seed) ==
  /\ pc = "new"
  /\ LET fresh == Flatten([k \in 1..Len(Colors) |-> Repeat(Colors[k], TilesPerColor)])
         dealt == Deal(Shuffle(fresh, seed), NumFactories)
     IN /\ bag' = dealt.bag
        /\ factories' = dealt.factories
  /\ center' = <<Marker>>
  /\ pc' = "loop"
  /\ Record("setup_game", NoArgs)
  /\ UNCHANGED <<num_players, mode, ai, hashSeed, players, discard, round_num,
                 active_player, first_player_token, wallIdx, humanTurns,
                 roundLog>>
  /\ UNCHANGED <<ctorVars, logicVars>>

\* line 101: the seat that plays after seat a
next_player(a, n) == (a + 1) % n

\* line 90: the seat that starts a round
round_starter_zero(token) == 0
round_starter(token) == token

\* play_game: the loop test fails, play_round starts (game.py 70-73, 90)
PlayRound ==
  /\ pc = "loop"
  /\ ~is_game_over(players)
  /\ round_num <= RoundCap
  /\ active_player' = round_starter(first_player_token)
  /\ pc' = "turn"
  /\ Record("play_round", NoArgs)
  /\ UNCHANGED <<num_players, mode, ai, hashSeed, players, factories, center,
                 bag, discard, round_num, first_player_token, wallIdx,
                 humanTurns>>
  /\ roundLog' = [starter |-> round_starter(first_player_token),
                  center_takes |-> 0,
                  turns |-> 0,
                  prev_starter |-> roundLog.starter,
                  prev_center_takes |-> roundLog.center_takes]
  /\ UNCHANGED <<ctorVars, logicVars>>

\* the rest of play_turn and of the loop body of play_round once the move
\* is chosen (game.py 121, 101)
ApplyMove(mv) ==
  LET g == execute_move(Game, active_player, mv.source, mv.color, mv.line)
  IN /\ players' = g.players
     /\ factories' = g.factories
     /\ center' = g.center
     /\ first_player_token' = g.first_player_token
     /\ active_player' = next_player(active_player, num_players)
     /\ roundLog' = IF mv.source = CenterId
                    THEN [roundLog EXCEPT !.center_takes = @ + 1,
                                          !.turns = @ + 1]
                    ELSE [roundLog EXCEPT !.turns = @ + 1]
     /\ Record("execute_move",
               [player |-> active_player, source |-> mv.source,
                color |-> mv.color, line |-> mv.line])

\* one iteration of play_round for an AzulCPU seat (game.py 95-101, 113-117)
DummyTurn ==
  /\ pc = "turn"
  /\ RoundContinues(factories, center)
  /\ ai[active_player] = "dummy"
  /\ LET mv == dummy_algorithm(players[active_player], factories, center,
                               mode, hashSeed)
     IN IF mv = NoMove
        THEN /\ pc' = "RuntimeError"
             /\ Record("choose_move", [player |-> active_player])
             /\ UNCHANGED <<players, factories, center, first_player_token,
                            active_player, roundLog>>
        ELSE /\ ApplyMove(mv)
             /\ pc' = pc
  /\ UNCHANGED <<num_players, mode, ai, hashSeed, bag, discard, round_num,
                 wallIdx, humanTurns>>
  /\ UNCHANGED <<ctorVars, logicVars>>

\* get_user_source_choice (game.py 219-245): the sources a typed choice selects
LastDigit(i) == i % 10
UserSources ==
  LET valid_factories == {LastDigit(f) : f \in {k \in FactoryIds : factories[k] # <<>>}}
      chosen(d) == IF d = 0 THEN NumFactories ELSE d
  IN IF valid_factories # {}
     THEN {chosen(d) : d \in {e \in valid_factories : chosen(e) \in FactoryIds}}
            \cup (IF is_center_valid_choice(center) THEN {CenterId} ELSE {})
     ELSE {CenterId}

\* get_user_color_choice (game.py 257-271)
UserColors(src) ==
  {c \in ColorSet : In(c, SourceTiles(factories, center, src))}

\* choose_pattern_line (game.py 273-291) on get_valid_lines (game.py 139-142)
UserLines(color) ==
  LET vl == get_valid_lines(players[active_player], color, mode)
  IN {vl[k] : k \in 1..Len(vl)} \cup {-1}

\* one iteration of play_round for a human seat (game.py 95-101, 118-121):
\* the typed source, color and line are the inputs
HumanTurn ==
  /\ pc = "turn"
  /\ RoundContinues(factories, center)
  /\ ai[active_player] = "human"
  /\ humanTurns < MaxHumanTurns
  /\ \E src \in UserSources : \E color \in UserColors(src) :
       \E line \in UserLines(color) :
         ApplyMove([source |-> src, color |-> color, line |-> line])
  /\ humanTurns' = humanTurns + 1
  /\ UNCHANGED <<pc, num_players, mode, ai, hashSeed, bag, discard, round_num,
                 wallIdx>>
  /\ UNCHANGED <<ctorVars, logicVars>>

\* play_round returns: its loop test fails (game.py 91-94); end_round starts
RoundReturns ==
  /\ pc = "turn"
  /\ ~RoundContinues(factories, center)
  /\ pc' = "end_round"
  /\ wallIdx' = 0
  /\ Record("play_round_returns", NoArgs)
  /\ UNCHANGED <<num_players, mode, ai, hashSeed, players, factories, center,
                 bag, discard, round_num, active_player, first_player_token,
                 humanTurns, roundLog>>
  /\ UNCHANGED <<ctorVars, logicVars>>

\* the columns typed during one move_to_wall: at each of its prompts the k-th
\* offered column, for one k in 1..MaxColChoice
ColInputs ==
  IF mode = "pattern" \/ wallIdx \notin Seats THEN {[i \in Rows |-> 1]}
  ELSE {[i \in Rows |->
           IF Len(players[wallIdx].pattern_lines[i]) = i + 1 THEN k ELSE 1] :
          k \in 1..MaxColChoice}

\* end_round: move_to_wall for the next player (game.py 295-296)
MoveToWall(cols) ==
  /\ pc = "end_round"
  /\ wallIdx < num_players
  /\ LET res == move_to_wall(players[wallIdx], discard, mode, cols)
     IN /\ players' = [players EXCEPT ![wallIdx] = res.player]
        /\ discard' = res.discard
  /\ wallIdx' = wallIdx + 1
  /\ Record("move_to_wall", [player |-> wallIdx])
  /\ UNCHANGED <<pc, num_players, mode, ai, hashSeed, factories, center, bag,
                 round_num, active_player, first_player_token, humanTurns,
                 roundLog>>
  /\ UNCHANGED <<ctorVars, logicVars>>

\* reset_factories (game.py 357-371), the last call of end_round
ResetFactories(seed) ==
  /\ pc = "end_round"
  /\ wallIdx = num_players
  /\ LET refill == Len(bag) < NumFactories * FactorySize
         bag1 == IF refill
                 THEN Shuffle(bag \o Without(discard, Marker), seed)
                 ELSE bag
         dealt == Deal(bag1, NumFactories)
     IN /\ discard' = IF refill THEN Only(discard, Marker) ELSE discard
        /\ bag' = dealt.bag
        /\ factories' = dealt.factories
  /\ center' = <<Marker>>
  /\ pc' = "round_done"
  /\ Record("reset_factories", NoArgs)
  /\ UNCHANGED <<num_players, mode, ai, hashSeed, players, round_num,
                 active_player, first_player_token, wallIdx, humanTurns,
                 roundLog>>
  /\ UNCHANGED <<ctorVars, logicVars>>

\* play_game: self.round_num += 1 (game.py 75)
NextRound ==
  /\ pc = "round_done"
  /\ round_num' = round_num + 1
  /\ pc' = "loop"
  /\ Record("next_round", NoArgs)
  /\ UNCHANGED <<num_players, mode, ai, hashSeed, players, factories, center,
                 bag, discard, active_player, first_player_token, wallIdx,
                 humanTurns, roundLog>>
  /\ UNCHANGED <<ctorVars, logicVars>>

\* play_game: the loop ends, end_game_scoring (game.py 70, 77, 201-205)
EndGameScoring ==
  /\ pc = "loop"
  /\ is_game_over(players)
  /\ players' = [p \in Seats |->
       LET b == calculate_end_game_bonus(players[p].wall)
       IN [players[p] EXCEPT !.score = @ + b[1] + b[2] + b[3]]]
  /\ pc' = "done"
  /\ Record("end_game_scoring", NoArgs)
  /\ UNCHANGED <<num_players, mode, ai, hashSeed, factories, center, bag,
                 discard, round_num, active_player, first_player_token,
                 wallIdx, humanTurns, roundLog>>
  /\ UNCHANGED <<ctorVars, logicVars>>

(***************************************************************************)
(* Specifications.                                                         *)
(***************************************************************************)
Next ==
  \/ \E seed \in Seeds : SetupGame(seed)
  \/ PlayRound
  \/ DummyTurn
  \/ HumanTurn
  \/ RoundReturns
  \/ \E cols \in ColInputs : MoveToWall(cols)
  \/ \E seed \in Seeds : ResetFactories(seed)
  \/ NextRound
  \/ EndGameScoring

Spec == Init /\ [][Next]_vars

\* play_game for every number of players the game is played with; the human
\* seat and the free mode are followed in the game of two
PlayerCounts == 2..5

InitPlayers ==
  /\ pc = "new"
  /\ \E n \in PlayerCounts :
       \E m \in (IF n = NumPlayers THEN Modes ELSE {"pattern"}) :
         Constructed(n, m)
  /\ ai \in IF num_players = NumPlayers THEN AiConfigs(num_players)
            ELSE {[s \in Seats |-> "dummy"]}
  /\ hashSeed \in HashSeeds
  /\ wallIdx = 0
  /\ humanTurns = 0
  /\ last = NoOp
  /\ prev = Snapshot
  /\ roundLog = NoRound
  /\ ctor = CtorIdle
  /\ obj = <<>>
  /\ call = NoCall
  /\ RatingUnused

SpecPlayers == InitPlayers /\ [][Next]_vars

NextCtor ==
  \/ \E n \in 0..MaxCtorPlayers : \E m \in Modes : \E v \in BOOLEAN :
       CtorCall(n, m, v)
  \/ CtorPlayers
  \/ CtorAI
  \/ CtorAssign

SpecCtor == InitCtor /\ [][NextCtor]_vars

(***************************************************************************)
(* Games whose seats hold any of the five strategies (main.py 26, 64-66,   *)
(* 146-169), the choice of a move being a step of its own.                 *)
(***************************************************************************)
STRATEGIES == <<"dummy", "greedy", "smart", "strategic", "minmax">>

\* game.ai as main.py sets it: a human and the last strategy, or two
\* different strategies, here each strategy and the one after it
CpuConfigs ==
  {[s \in 0..(NumPlayers - 1) |->
      IF s = 0 THEN "human" ELSE STRATEGIES[Len(STRATEGIES)]]}
  \cup {[s \in 0..(NumPlayers - 1) |->
           STRATEGIES[IF s = 0 THEN k ELSE (k % Len(STRATEGIES)) + 1]] :
          k \in 1..Len(STRATEGIES)}

InitCpu ==
  /\ pc = "new"
  /\ \E m \in Modes : Constructed(NumPlayers, m)
  /\ ai \in CpuConfigs
  /\ hashSeed \in HashSeeds
  /\ wallIdx = 0
  /\ humanTurns = 0
  /\ last = NoOp
  /\ prev = Snapshot
  /\ roundLog = NoRound
  /\ ctor = CtorIdle
  /\ obj = <<>>
  /\ call = NoCall
  /\ RatingUnused

IsRaise(result) == "raises" \in DOMAIN result

\* the call of choose_move and what it leaves of the game
ChooseMoveCall ==
  LET r == choose_move(players, active_player, ai, factories, center, mode,
                       hashSeed, round_num)
  IN /\ call' = [fn |-> "choose_move", strategy |-> ai[active_player],
                 result |-> r.result]
     /\ players' = r.players
     /\ Record("choose_move", [player |-> active_player])
     /\ UNCHANGED <<num_players, mode, ai, hashSeed, factories, center, bag,
                    discard, round_num, active_player, first_player_token,
                    wallIdx, humanTurns, roundLog>>
     /\ UNCHANGED <<ctorVars, ratingVars>>

\* play_turn for an AzulCPU seat: ai_player.choose_move() (game.py 113-117);
\* an exception leaves play_game
ChooseMove ==
  /\ pc = "turn"
  /\ RoundContinues(factories, center)
  /\ ai[active_player] # "human"
  /\ ChooseMoveCall
  /\ pc' = IF IsRaise(call'.result) THEN call'.result.raises ELSE "chosen"

\* play_turn: execute_move with the chosen move (game.py 121), then the
\* next seat (game.py 101)
ExecuteChosen ==
  /\ pc = "chosen"
  /\ ApplyMove(call.result)
  /\ pc' = "turn"
  /\ call' = NoCall
  /\ UNCHANGED <<num_players, mode, ai, hashSeed, bag, discard, round_num,
                 wallIdx, humanTurns>>
  /\ UNCHANGED <<ctorVars, ratingVars>>

\* choose_move called on the AzulCPU of the active seat while no round is
\* being played: before setup_game, or when play_round has returned
ChooseMoveOutsideRound ==
  /\ pc \in {"new", "end_round"}
  /\ wallIdx = 0
  /\ ai[active_player] # "human"
  /\ ChooseMoveCall
  /\ pc' = IF IsRaise(call'.result) THEN call'.result.raises ELSE pc

\* play_turn for the human seat (game.py 118-121), the line typed being the
\* floor line
TypedTurn ==
  /\ pc = "turn"
  /\ RoundContinues(factories, center)
  /\ ai[active_player] = "human"
  /\ humanTurns < MaxHumanTurns
  /\ \E src \in UserSources : \E color \in UserColors(src) :
       ApplyMove([source |-> src, color |-> color, line |-> -1])
  /\ humanTurns' = humanTurns + 1
  /\ UNCHANGED <<pc, num_players, mode, ai, hashSeed, bag, discard, round_num,
                 wallIdx>>
  /\ UNCHANGED <<ctorVars, logicVars>>

NextCpu ==
  \/ \E seed \in Seeds : SetupGame(seed)
  \/ PlayRound
  \/ ChooseMove
  \/ ExecuteChosen
  \/ ChooseMoveOutsideRound
  \/ TypedTurn
  \/ RoundReturns
  \/ \E cols \in ColInputs : MoveToWall(cols)
  \/ \E seed \in Seeds : ResetFactories(seed)
  \/ NextRound
  \/ EndGameScoring

SpecCpu == InitCpu /\ [][NextCpu]_vars

(***************************************************************************)
(* GameLogic functions called on their own (game_logic.py): one call per   *)
(* behaviour, its arguments drawn from the sets below.                     *)
(***************************************************************************)
\* a wall whose cells in Cells hold the color of the wall pattern
WallOf(Cells) ==
  [i \in Rows |-> [j \in Rows |->
     IF <<i, j>> \in Cells THEN WallPatternRows[i + 1][j + 1] ELSE None]]

\* walls with the tile at (row, col), any tiles in its row and column, and
\* the cells off its row and column all empty or all occupied
ScoreWalls(row, col) ==
  {WallOf({<<row, col>>}
          \cup {<<row, j>> : j \in H} \cup {<<i, col>> : i \in V}
          \cup (IF rest
                THEN {ij \in Rows \X Rows : ij[1] # row /\ ij[2] # col}
                ELSE {})) :
     <<H, V, rest>> \in (SUBSET (Rows \ {col})) \X (SUBSET (Rows \ {row})) \X BOOLEAN}

\* the cells of the wall pattern that hold color c
ColorCells(c) == {ij \in Rows \X Rows : WallPatternRows[ij[1] + 1][ij[2] + 1] = c}

UpTo2(S) == {T \in SUBSET S : Cardinality(T) <= 2}

\* walls made of up to two rows, two columns and two colors, whole or with
\* one cell taken out
BonusWalls ==
  {WallOf(({ij \in Rows \X Rows : ij[1] \in R \/ ij[2] \in Cs}
           \cup UNION {ColorCells(c) : c \in K}) \ hole) :
     <<R, Cs, K, hole>> \in
       UpTo2(Rows) \X UpTo2(Rows) \X UpTo2(ColorSet)
         \X {{}, {<<0, 0>>}, {<<2, 3>>}, {<<4, 1>>}}}

\* the pattern lines with the given line at index i and the other lines empty
\* or holding one tile of color
LinesWith(i, line, color, started) ==
  [r \in Rows |-> IF r = i THEN line
                  ELSE IF started THEN <<color>> ELSE <<>>]

\* the colors other than color, in the order of self.colors
OtherColors(color) == Without(Colors, color)

\* what pattern line i can hold: nothing, or 1..i+1 tiles of one color
LinesOf(i, color) ==
  {<<>>} \cup {Repeat(c, k) : <<c, k>> \in {color, OtherColors(color)[1]} \X (1..(i + 1))}

\* pattern-mode boards for line i: any tiles of the wall pattern in row i
PatternBoards(i, color) ==
  {[NewPlayer EXCEPT !.pattern_lines = LinesWith(i, line, color, started),
                     !.wall = WallOf({<<i, j>> : j \in T})] :
     <<line, T, started>> \in LinesOf(i, color) \X (SUBSET Rows) \X BOOLEAN}

\* position of x in the increasing enumeration of the set S of numbers
Rank(x, S) == Cardinality({y \in S : y <= x})

\* a free-mode wall: row i holds tiles in the columns T (color itself in the
\* first of them when inRow, other colors elsewhere) and the columns S hold
\* color in the rows other than i, one row each; no color twice in a row or
\* in a column
FreeWall(i, color, T, S, inRow) ==
  [r \in Rows |-> [j \in Rows |->
     IF r = i
     THEN IF j \notin T THEN None
          ELSE IF inRow /\ Rank(j, T) = 1 THEN color
          ELSE OtherColors(color)[Rank(j, T) - (IF inRow THEN 1 ELSE 0)]
     ELSE IF j \in S /\ Rank(r, Rows \ {i}) = Rank(j, S) THEN color
     ELSE None]]

UpTo4(S) == {T \in SUBSET S : Cardinality(T) <= 4}

\* free-mode boards for line i
FreeBoards(i, color) ==
  {[NewPlayer EXCEPT !.pattern_lines = LinesWith(i, line, color, FALSE),
                     !.wall = FreeWall(i, color, T, S, inRow)] :
     <<line, T, S, inRow>> \in
       {q \in {<<>>, <<color>>} \X UpTo4(Rows) \X UpTo4(Rows) \X BOOLEAN :
          /\ Len(q[1]) <= i
          /\ q[4] => q[2] # {} /\ \A j \in q[2] : Rank(j, q[2]) = 1 => j \notin q[3]}}

InitLogic == InitCtor

CallScoreTile ==
  /\ call = NoCall
  /\ \E row, col \in Rows : \E wall \in ScoreWalls(row, col) :
       call' = [fn |-> "score_tile", wall |-> wall, row |-> row, col |-> col,
                result |-> score_tile(wall, row, col)]
  /\ UNCHANGED <<gameVars, ctorVars, ratingVars>>

CallFloorPenalty ==
  /\ call = NoCall
  /\ \E num_tiles \in 0..MaxFloorTiles :
       call' = [fn |-> "calculate_floor_penalty", num_tiles |-> num_tiles,
                result |-> calculate_floor_penalty(num_tiles)]
  /\ UNCHANGED <<gameVars, ctorVars, ratingVars>>

CallEndGameBonus ==
  /\ call = NoCall
  /\ \E wall \in BonusWalls :
       call' = [fn |-> "calculate_end_game_bonus", wall |-> wall,
                result |-> calculate_end_game_bonus(wall)]
  /\ UNCHANGED <<gameVars, ctorVars, ratingVars>>

CallGetValidLines ==
  /\ call = NoCall
  /\ \E i \in Rows : \E color \in ColorSet : \E m \in Modes :
       \E player \in (IF m = "pattern" THEN PatternBoards(i, color)
                      ELSE IF color \in {Colors[1], Colors[5]}
                           THEN FreeBoards(i, color) ELSE {}) :
         call' = [fn |-> "get_valid_lines", player |-> player, color |-> color,
                  mode |-> m, line |-> i,
                  result |-> get_valid_lines(player, color, m)]
  /\ UNCHANGED <<gameVars, ctorVars, ratingVars>>

NextLogic ==
  \/ CallScoreTile
  \/ CallFloorPenalty
  \/ CallEndGameBonus
  \/ CallGetValidLines

SpecLogic == InitLogic /\ [][NextLogic]_vars

(***************************************************************************)
(* Floating-point arithmetic of the rating systems.                        *)
(* A float is kept as a whole number of quanta of 2^-FracBits and carries  *)
(* Precision significant bits; every operation rounds its exact result to  *)
(* the nearest such number, ties to even, as the binary64 operations of    *)
(* the interpreter do with 53 bits.                                        *)
(***************************************************************************)
FracBits == Precision + 6
Quantum(n) == n * 2^FracBits
Half == 2^(FracBits - 1)

RECURSIVE BitLen(_)
BitLen(m) == IF m = 0 THEN 0 ELSE 1 + BitLen(m \div 2)

\* (m + e) * 2^s quanta, m >= 0 and 0 <= e < 1 (e > 0 iff sticky), rounded
RoundMagnitude(m, s, sticky) ==
  LET k == Max(BitLen(m) - Precision, 0 - s)
  IN IF k <= 0 THEN m * 2^s
     ELSE LET hi == m \div 2^k
              rem == m % 2^k
              half == 2^(k - 1)
              up == rem > half \/ (rem = half /\ (sticky \/ hi % 2 = 1))
          IN (hi + (IF up THEN 1 ELSE 0)) * 2^(k + s)

Round(m, s, sticky) ==
  IF m < 0 THEN 0 - RoundMagnitude(0 - m, s, sticky)
  ELSE RoundMagnitude(m, s, sticky)

\* the number of trailing zero bits of m # 0
RECURSIVE TrailingZeros(_)
TrailingZeros(m) == IF m % 2 = 1 THEN 0 ELSE 1 + TrailingZeros(m \div 2)
Exponent(m) == IF m = 0 THEN 0 ELSE TrailingZeros(Abs(m))
Significand(m) == Abs(m) \div 2^Exponent(m)
SignOf(m) == IF m < 0 THEN 0 - 1 ELSE 1

\* x + y and x - y
FAdd(x, y) == Round(x + y, 0, FALSE)
FSub(x, y) == Round(x - y, 0, FALSE)

\* x * y
FMul(x, y) ==
  SignOf(x) * SignOf(y)
    * RoundMagnitude(Significand(x) * Significand(y),
                     Exponent(x) + Exponent(y) - FracBits, FALSE)

\* x / y, y # 0: the quotient of the significands to Precision + 2 bits and
\* whether anything is left over
FDiv(x, y) ==
  IF x = 0 THEN 0
  ELSE LET g == Precision + 2 + BitLen(Significand(y)) - BitLen(Significand(x))
           num == Significand(x) * 2^g
       IN SignOf(x) * SignOf(y)
            * RoundMagnitude(num \div Significand(y),
                             Exponent(x) - Exponent(y) + FracBits - g,
                             num % Significand(y) # 0)

\* 10 ** (i / 128) in units of 2^-16 for i = -64 .. 65
Pow10Table ==
  <<
     20724, 21100, 21483, 21873, 22270, 22675, 23086, 23505, 23932, 24366,
     24809, 25259, 25718, 26184, 26660, 27144, 27636, 28138, 28649, 29169,
     29698, 30237, 30786, 31345, 31914, 32493, 33083, 33684, 34295, 34917,
     35551, 36197, 36854, 37523, 38204, 38897, 39603, 40322, 41054, 41799,
     42558, 43330, 44117, 44918, 45733, 46563, 47408, 48269, 49145, 50037,
     50945, 51870, 52812, 53770, 54746, 55740, 56752, 57782, 58831, 59899,
     60986, 62093, 63220, 64368, 65536, 66726, 67937, 69170, 70425, 71704,
     73005, 74331, 75680, 77054, 78452, 79876, 81326, 82802, 84305, 85836,
     87394, 88980, 90595, 92240, 93914, 95619, 97354, 99121, 100921, 102753,
     104618, 106517, 108450, 110419, 112423, 114464, 116541, 118657, 120811, 123003,
     125236, 127509, 129824, 132181, 134580, 137023, 139510, 142042, 144621, 147246,
     149918, 152640, 155410, 158231, 161103, 164028, 167005, 170037, 173123, 176266,
     179465, 182723, 186039, 189416, 192855, 196355, 199919, 203548, 207243, 211005
  >>
\* 10 ** x for -0.5 <= x <= 0.5: the table, linear between its entries
Pow10(x) ==
  LET step == 2^FracBits \div 128
      i == x \div step
      lo == Pow10Table[i + 65]
      hi == Pow10Table[i + 66]
  IN Round(lo + ((hi - lo) * (x % step)) \div step, FracBits - 16, FALSE)

(***************************************************************************)
(* The rating systems (src/src/azul/rating_systems).                       *)
(* rs is the rating-system object, files the two JSON files it persists    *)
(* to, upd the position and arguments of update_ratings together with the  *)
(* state at its call.  update_ratings is followed statement group by       *)
(* statement group, so the files are seen as another reader of them would  *)
(* see them between two writes.                                            *)
(***************************************************************************)
WIN == 1
DRAW == 0
LOSS == -1
Outcomes == {WIN, DRAW, LOSS}

One == Quantum(1)
DefaultRating == Quantum(1500)
EloDivisor == Quantum(400)

EmptyMap == <<>>
NoFile == [state |-> "absent", data |-> EmptyMap]
\* open(path, "w") leaves an empty file until json.dump writes
EmptyFile == [state |-> "empty", data |-> EmptyMap]
\* json.dump: strings, ints and floats (written by repr) are read back as
\* the values they were
JsonFile(data) == [state |-> "json", data |-> data]
\* json.load inside try/except JSONDecodeError: an empty file gives {}
JsonLoad(file) == IF file.state = "json" THEN file.data ELSE EmptyMap

NoRecord == [wins |-> 0, losses |-> 0, draws |-> 0]

\* self.ratings[strategy] = {...} for a strategy without a record
NewEloRecord(sys) ==
  [rating |-> DefaultRating, k_factor |-> sys.initial_k, games |-> 0]

\* expected1 = 1 / (1 + 10 ** ((rating2 - rating1) / 400))
expected1(rating1, rating2) ==
  FDiv(One, FAdd(One, Pow10(FDiv(FSub(rating2, rating1), EloDivisor))))

expected2_same_as_first(e1) == e1

\* expected2 = 1 - expected1
expected2(e1) == FSub(One, e1)

actual1(score) ==
  IF score = WIN THEN One ELSE IF score = LOSS THEN 0 ELSE Half
actual2(score) ==
  IF score = WIN THEN 0 ELSE IF score = LOSS THEN One ELSE Half

k_factor_no_floor(sys, games) ==
  FSub(sys.initial_k, FMul(sys.k_decrease, Quantum(games)))

\* max(self.min_k, self.initial_k - self.k_decrease * games)
k_factor(sys, games) ==
  Max(sys.min_k, FSub(sys.initial_k, FMul(sys.k_decrease, Quantum(games))))

\* rating["rating"] += rating["k_factor"] * (actual - expected), then the
\* game count and the K-factor
played(sys, rec, actual, expected) ==
  [rating |-> FAdd(rec.rating, FMul(rec.k_factor, FSub(actual, expected))),
   k_factor |-> k_factor(sys, rec.games + 1),
   games |-> rec.games + 1]

Slot(matchups, first, second) ==
  IF first \in DOMAIN matchups /\ second \in DOMAIN matchups[first]
  THEN matchups[first][second] ELSE NoRecord

Row(matchups, first) ==
  IF first \in DOMAIN matchups THEN matchups[first] ELSE EmptyMap

\* matchups with matchups[first][second] set to rec
WithSlot(matchups, first, second, rec) ==
  (first :> ((second :> rec) @@ Row(matchups, first))) @@ matchups

count_loss_as_draw(rec, score) ==
  IF score = WIN THEN [rec EXCEPT !.wins = @ + 1]
  ELSE [rec EXCEPT !.draws = @ + 1]

\* the counter of the outcome
count(rec, score) ==
  IF score = WIN THEN [rec EXCEPT !.wins = @ + 1]
  ELSE IF score = LOSS THEN [rec EXCEPT !.losses = @ + 1]
  ELSE [rec EXCEPT !.draws = @ + 1]

\* BaseRatingSystem.update_matchup_stats
update_matchup_stats(sys, first, second, score) ==
  IF ~sys.save_results_enabled THEN sys.matchups
  ELSE WithSlot(sys.matchups, first, second,
                count(Slot(sys.matchups, first, second), score))

\* Glicko2System.update_matchup_stats: both directions, whatever the flag
glicko2_update_matchup_stats(sys, player1, player2, score) ==
  LET both == WithSlot(WithSlot(sys.matchups, player1, player2,
                                Slot(sys.matchups, player1, player2)),
                       player2, player1, Slot(sys.matchups, player2, player1))
  IN WithSlot(WithSlot(both, player1, player2,
                       count(both[player1][player2], score)),
              player2, player1, count(both[player2][player1], 0 - score))

\* EloSystem.update_ratings, lines 89-116, on the records _get_rating returned
elo_apply(sys, first, second, score) ==
  LET rating1 == sys.ratings[first]
      rating2 == sys.ratings[second]
      e1 == expected1(rating1.rating, rating2.rating)
      e2 == expected2(e1)
  IN [sys EXCEPT
        !.ratings = [@ EXCEPT ![first] = played(sys, rating1, actual1(score), e1),
                              ![second] = played(sys, rating2, actual2(score), e2)],
        !.matchups = update_matchup_stats(sys, first, second, score)]

\* Glicko-2 values: the defaults (MU, PHI, SIGMA) and one rated player
GlickoDefault ==
  [rating |-> DefaultRating, rd |-> Quantum(350),
   vol |-> FDiv(Quantum(6), Quantum(100))]
GlickoRated ==
  [rating |-> Quantum(1600), rd |-> Quantum(290),
   vol |-> FDiv(Quantum(6), Quantum(100))]

\* _compute_new_rating: its arithmetic (exp, log, sqrt and the iteration for
\* the volatility) is not evaluated; it returns its arguments unchanged
\* (line 449) or other values, for which GlickoDefault and GlickoRated stand
compute_new_rating(rating, rd, vol) ==
  {[rating |-> rating, rd |-> rd, vol |-> vol], GlickoDefault, GlickoRated}

NewGlickoRecord ==
  [rating |-> GlickoDefault.rating, rd |-> GlickoDefault.rd,
   vol |-> GlickoDefault.vol, games |-> 0]

WithDefault(ratings, name) ==
  IF name \in DOMAIN ratings THEN ratings ELSE (name :> NewGlickoRecord) @@ ratings

\* Glicko2System.update_ratings, lines 227-290, with the results new1 and
\* new2 of the two calls of _compute_new_rating
glicko2_apply(sys, first, second, score, new1, new2) ==
  LET ratings == WithDefault(WithDefault(sys.ratings, first), second)
  IN [sys EXCEPT
        !.ratings = [ratings EXCEPT
                       ![first] = [rating |-> new1.rating, rd |-> new1.rd,
                                   vol |-> new1.vol, games |-> @.games + 1],
                       ![second] = [rating |-> new2.rating, rd |-> new2.rd,
                                    vol |-> new2.vol, games |-> @.games + 1]],
        !.matchups = glicko2_update_matchup_stats(sys, first, second, score)]

\* TrueSkill values: Rating() with the defaults of the package (mu 25, sigma
\* 25/3) and one rated player
TsDefault == [mu |-> Quantum(25), sigma |-> FDiv(Quantum(25), Quantum(3))]
TsRated == [mu |-> Quantum(29), sigma |-> Quantum(7)]

\* rate_1vs1 of the trueskill package: its arithmetic is not evaluated; it
\* returns two Rating objects, for which TsDefault and TsRated stand
rate_1vs1(rating1, rating2) == {TsDefault, TsRated} \X {TsDefault, TsRated}

\* TrueSkillSystem._get_rating
WithRating(ratings, strategy) ==
  IF strategy \in DOMAIN ratings THEN ratings
  ELSE (strategy :> [rating |-> TsDefault]) @@ ratings

\* TrueSkillSystem.update_matchup_stats: first against second, whatever the flag
trueskill_update_matchup_stats(sys, first, second, score) ==
  WithSlot(sys.matchups, first, second,
           count(Slot(sys.matchups, first, second), score))

\* TrueSkillSystem.update_ratings, lines 97-113, with the pair new that
\* rate_1vs1 returned for (first, second)
trueskill_apply(sys, first, second, score, new) ==
  [sys EXCEPT
     !.ratings = [WithRating(WithRating(sys.ratings, first), second) EXCEPT
                    ![first] = [rating |-> new[1]],
                    ![second] = [rating |-> new[2]]],
     !.matchups = trueskill_update_matchup_stats(sys, first, second, score)]

\* what save_ratings hands to json.dump: self.ratings, for TrueSkill the mu
\* and sigma of each Rating
Dumped(sys) ==
  IF sys.kind = "trueskill"
  THEN [name \in DOMAIN sys.ratings |->
          [mu |-> sys.ratings[name].rating.mu,
           sigma |-> sys.ratings[name].rating.sigma]]
  ELSE sys.ratings

\* _load_ratings of the subclass on the data json.load returned
Loaded(kind, data) ==
  IF kind = "trueskill"
  THEN [name \in DOMAIN data |->
          [rating |-> [mu |-> data[name].mu, sigma |-> data[name].sigma]]]
  ELSE IF kind = "elo"
  THEN [name \in DOMAIN data |->
          [rating |-> data[name].rating, k_factor |-> data[name].k_factor,
           games |-> data[name].games]]
  ELSE data

\* the files as save_results and save_ratings leave them
FilesOf(sys) ==
  [ratings |-> JsonFile(Dumped(sys)),
   results |-> IF sys.save_results_enabled THEN JsonFile(sys.matchups) ELSE NoFile]

\* __init__ of BaseRatingSystem (30-40) and of the subclass: the files are
\* read unless reset is set, the results only when results are saved;
\* TrueSkillSystem.__init__ assigns {} to self.ratings and self.matchups after
\* that (trueskill.py 31-32) and reads the ratings again (35-38)
Construct(cfg, fs) ==
  [kind |-> cfg.kind,
   initial_k |-> cfg.initial_k, min_k |-> cfg.min_k,
   k_decrease |-> cfg.k_decrease,
   save_results_enabled |-> cfg.save_results,
   ratings |-> IF ~cfg.reset /\ fs.ratings.state # "absent"
               THEN Loaded(cfg.kind, JsonLoad(fs.ratings)) ELSE EmptyMap,
   matchups |-> IF /\ ~cfg.reset /\ fs.results.state # "absent" /\ cfg.save_results
                   /\ cfg.kind # "trueskill"
                THEN JsonLoad(fs.results) ELSE EmptyMap]

\* the arguments that construct the system again
ConfigOf(sys) ==
  [kind |-> sys.kind, initial_k |-> sys.initial_k, min_k |-> sys.min_k,
   k_decrease |-> sys.k_decrease, save_results |-> sys.save_results_enabled,
   reset |-> FALSE]

NoFiles == [ratings |-> NoFile, results |-> NoFile]

EloConfig(initial_k, min_k, k_decrease, save_results) ==
  [kind |-> "elo", initial_k |-> Quantum(initial_k), min_k |-> Quantum(min_k),
   k_decrease |-> Quantum(k_decrease), save_results |-> save_results,
   reset |-> FALSE]
Glicko2Config ==
  [kind |-> "glicko2", initial_k |-> 0, min_k |-> 0, k_decrease |-> 0,
   save_results |-> TRUE, reset |-> FALSE]
TrueSkillConfig ==
  [kind |-> "trueskill", initial_k |-> 0, min_k |-> 0, k_decrease |-> 0,
   save_results |-> TRUE, reset |-> FALSE]

\* the files an earlier run leaves in which greedy beat smart once
EarlierRun(cfg) ==
  LET fresh == Construct(cfg, NoFiles)
  IN FilesOf(IF cfg.kind = "elo"
             THEN elo_apply([fresh EXCEPT
                               !.ratings = ("greedy" :> NewEloRecord(fresh))
                                           @@ ("smart" :> NewEloRecord(fresh))],
                            "greedy", "smart", WIN)
             ELSE IF cfg.kind = "glicko2"
             THEN glicko2_apply(fresh, "greedy", "smart", WIN,
                                GlickoRated, GlickoDefault)
             ELSE trueskill_apply(fresh, "greedy", "smart", WIN,
                                  <<TsRated, TsDefault>>))

\* the strategies rated in the run that is followed, and those with a record
RatedNames == {"dummy", "greedy"}
KnownNames == RatedNames \cup {"smart"}

\* a system with its files: EloSystem with the defaults of the class (32, 10,
\* 1) and with a floor two games away, with and without saved results,
\* Glicko2System and TrueSkillSystem
RatingSetups ==
  {[cfg |-> EloConfig(32, 10, 1, TRUE), files |-> NoFiles],
   [cfg |-> EloConfig(32, 30, 1, TRUE),
    files |-> EarlierRun(EloConfig(32, 30, 1, TRUE))],
   [cfg |-> EloConfig(32, 10, 1, FALSE), files |-> NoFiles],
   [cfg |-> Glicko2Config, files |-> EarlierRun(Glicko2Config)],
   [cfg |-> TrueSkillConfig, files |-> EarlierRun(TrueSkillConfig)]}

GamesIn(ratings, name) ==
  IF name \in DOMAIN ratings /\ "games" \in DOMAIN ratings[name]
  THEN ratings[name].games ELSE 0

UpdIdle(sys, fs) ==
  [pc |-> "idle", first |-> "", second |-> "", score |-> 0, file |-> "",
   ret |-> "", n |-> 0,
   took |-> [name \in KnownNames |-> GamesIn(sys.ratings, name)],
   pre |-> [rs |-> sys, files |-> fs]]

InitRating ==
  /\ pc = "new"
  /\ Constructed(NumPlayers, "pattern")
  /\ ai = [s \in 0..(NumPlayers - 1) |-> "dummy"]
  /\ hashSeed = 1
  /\ wallIdx = 0
  /\ humanTurns = 0
  /\ last = NoOp
  /\ prev = Snapshot
  /\ roundLog = NoRound
  /\ ctor = CtorIdle
  /\ obj = <<>>
  /\ call = NoCall
  /\ \E setup \in RatingSetups :
       /\ files = setup.files
       /\ rs = Construct(setup.cfg, setup.files)
       /\ upd = UpdIdle(Construct(setup.cfg, setup.files), setup.files)

\* update_ratings(first, second, score) is called; the harnesses never rate
\* a strategy against itself (main.py 121-122)
UpdateRatings ==
  /\ upd.pc \in {"idle", "reloaded"}
  /\ upd.n < MaxGames
  /\ \E first, second \in RatedNames : \E score \in Outcomes :
       /\ first # second
       /\ upd' = [upd EXCEPT
                    !.pc = IF rs.kind = "elo" THEN "get_first" ELSE "apply",
                    !.first = first, !.second = second, !.score = score,
                    !.n = @ + 1,
                    !.took = [@ EXCEPT ![first] = @ + 1, ![second] = @ + 1],
                    !.pre = [rs |-> rs, files |-> files]]
  /\ UNCHANGED <<rs, files, gameVars, ctorVars, call>>

\* EloSystem._get_rating (64-75) for first, then for second
GetRating ==
  /\ upd.pc \in {"get_first", "get_second"}
  /\ LET strategy == IF upd.pc = "get_first" THEN upd.first ELSE upd.second
         after == IF upd.pc = "get_first" THEN "get_second" ELSE "apply"
     IN IF strategy \notin DOMAIN rs.ratings
        THEN /\ rs' = [rs EXCEPT !.ratings = (strategy :> NewEloRecord(rs)) @@ @]
             /\ upd' = IF rs.save_results_enabled
                       THEN [upd EXCEPT !.pc = "open", !.file = "ratings",
                                        !.ret = after]
                       ELSE [upd EXCEPT !.pc = after]
        ELSE /\ upd' = [upd EXCEPT !.pc = after]
             /\ UNCHANGED rs
  /\ UNCHANGED <<files, gameVars, ctorVars, call>>

\* lines 89-116 of EloSystem.update_ratings
ApplyElo ==
  /\ upd.pc = "apply"
  /\ rs.kind = "elo"
  /\ rs' = elo_apply(rs, upd.first, upd.second, upd.score)
  /\ upd' = [upd EXCEPT !.pc = "save_results"]
  /\ UNCHANGED <<files, gameVars, ctorVars, call>>

\* lines 227-290 of Glicko2System.update_ratings
ApplyGlicko2 ==
  /\ upd.pc = "apply"
  /\ rs.kind = "glicko2"
  /\ LET ratings == WithDefault(WithDefault(rs.ratings, upd.first), upd.second)
         rating1 == ratings[upd.first]
         rating2 == ratings[upd.second]
     IN \E new1 \in compute_new_rating(rating1.rating, rating1.rd, rating1.vol),
           new2 \in compute_new_rating(rating2.rating, rating2.rd, rating2.vol) :
          rs' = glicko2_apply(rs, upd.first, upd.second, upd.score, new1, new2)
  /\ upd' = [upd EXCEPT !.pc = "save_results"]
  /\ UNCHANGED <<files, gameVars, ctorVars, call>>

\* lines 97-115 of TrueSkillSystem.update_ratings: the files are written
\* only when results are saved, the ratings first
ApplyTrueSkill ==
  /\ upd.pc = "apply"
  /\ rs.kind = "trueskill"
  /\ LET ratings == WithRating(WithRating(rs.ratings, upd.first), upd.second)
         pair == IF upd.score = LOSS
                 THEN <<ratings[upd.second].rating, ratings[upd.first].rating>>
                 ELSE <<ratings[upd.first].rating, ratings[upd.second].rating>>
     IN \E new \in rate_1vs1(pair[1], pair[2]) :
          rs' = trueskill_apply(rs, upd.first, upd.second, upd.score,
                                IF upd.score = LOSS THEN <<new[2], new[1]>> ELSE new)
  /\ upd' = IF rs.save_results_enabled
            THEN [upd EXCEPT !.pc = "open", !.file = "ratings",
                             !.ret = "trueskill_save_results"]
            ELSE [upd EXCEPT !.pc = "idle"]
  /\ UNCHANGED <<files, gameVars, ctorVars, call>>

\* line 116 of TrueSkillSystem.update_ratings
SaveResultsTrueSkill ==
  /\ upd.pc = "trueskill_save_results"
  /\ upd' = [upd EXCEPT !.pc = "open", !.file = "results", !.ret = "idle"]
  /\ UNCHANGED <<rs, files, gameVars, ctorVars, call>>

\* a new instance of the class is constructed with reset=False over the
\* files, as every run of main.py and benchmark_ratings.py does
Reload ==
  /\ upd.pc = "idle"
  /\ upd.n > 0
  /\ rs' = Construct(ConfigOf(rs), files)
  /\ upd' = [upd EXCEPT !.pc = "reloaded", !.pre = [rs |-> rs, files |-> files]]
  /\ UNCHANGED <<files, gameVars, ctorVars, call>>

\* if self.save_results_enabled: self.save_results()
SaveResults ==
  /\ upd.pc = "save_results"
  /\ upd' = IF rs.save_results_enabled
            THEN [upd EXCEPT !.pc = "open", !.file = "results",
                             !.ret = "save_ratings"]
            ELSE [upd EXCEPT !.pc = "save_ratings"]
  /\ UNCHANGED <<rs, files, gameVars, ctorVars, call>>

\* self.save_ratings(), after which update_ratings returns
SaveRatings ==
  /\ upd.pc = "save_ratings"
  /\ upd' = [upd EXCEPT !.pc = "open", !.file = "ratings", !.ret = "idle"]
  /\ UNCHANGED <<rs, files, gameVars, ctorVars, call>>

\* with open(file, "w") as f
OpenFile ==
  /\ upd.pc = "open"
  /\ files' = [files EXCEPT ![upd.file] = EmptyFile]
  /\ upd' = [upd EXCEPT !.pc = "dump"]
  /\ UNCHANGED <<rs, gameVars, ctorVars, call>>

\* json.dump(self.ratings, f) or json.dump(self.matchups, f)
DumpFile ==
  /\ upd.pc = "dump"
  /\ files' = [files EXCEPT ![upd.file] =
                 JsonFile(IF upd.file = "ratings" THEN Dumped(rs) ELSE rs.matchups)]
  /\ upd' = [upd EXCEPT !.pc = upd.ret]
  /\ UNCHANGED <<rs, gameVars, ctorVars, call>>

NextRating ==
  \/ UpdateRatings
  \/ GetRating
  \/ ApplyElo
  \/ ApplyGlicko2
  \/ ApplyTrueSkill
  \/ SaveResultsTrueSkill
  \/ Reload
  \/ SaveResults
  \/ SaveRatings
  \/ OpenFile
  \/ DumpFile

SpecRating == InitRating /\ [][NextRating]_vars

(***************************************************************************)
(* Properties.                                                             *)
(***************************************************************************)
CountIn(s, c) == Cardinality({k \in 1..Len(s) : s[k] = c})

RECURSIVE SumFn(_)
SumFn(fn) ==
  IF DOMAIN fn = {} THEN 0
  ELSE LET x == CHOOSE y \in DOMAIN fn : TRUE
       IN fn[x] + SumFn([y \in DOMAIN fn \ {x} |-> fn[y]])

\* the tiles of a container that belong to the 100 tiles of the game (the
\* first-player marker is not one of them)
TilesHeld(s) == Len(Without(s, Marker))

WallCells(wall) ==
  Cardinality({ij \in Rows \X Rows : wall[ij[1]][ij[2]] # None})

BoardTiles(pl) ==
  SumFn([i \in Rows |-> TilesHeld(pl.pattern_lines[i])])
    + WallCells(pl.wall) + TilesHeld(pl.floor_line)

TilesInPlay ==
  SumFn([f \in FactoryIds |-> TilesHeld(factories[f])]) + TilesHeld(center)
    + SumFn([p \in Seats |-> BoardTiles(players[p])])

\* C1: after setup_game and after every later operation, the tiles of the
\* bag, the discard, the factories, the center, the pattern lines, the wall
\* cells and the floor lines number 100.
C1_TilesNumber100 ==
  pc # "new" =>
    TilesHeld(bag) + TilesHeld(discard) + TilesInPlay = Len(Colors) * TilesPerColor

\* C2: AzulGame(n) returns, never raising, a game with n players, 2n+1
\* factories and a center holding exactly the first-player marker.
C2_ConstructorSucceeds ==
  /\ ctor.pc # "AttributeError"
  /\ ctor.pc = "returned" =>
       /\ Len(obj["players"]) = ctor.n
       /\ Len(obj["factories"]) = 2 * ctor.n + 1
       /\ obj["center"] = <<Marker>>

(***************************************************************************)
(* execute_move: the move that produced the current state.                 *)
(***************************************************************************)
IsMove == last.op = "execute_move"
MoveFromFactory == IsMove /\ last.args.source # CenterId
MoveFromCenter == IsMove /\ last.args.source = CenterId

\* the tiles the chosen source held before the move
SourceBefore ==
  IF last.args.source = CenterId THEN prev.center
  ELSE prev.factories[last.args.source]

\* every tile on a player's pattern lines and floor line
Holdings(pl) ==
  Flatten([k \in 1..BoardSize |-> pl.pattern_lines[k - 1]]) \o pl.floor_line

\* tiles of color x the acting player holds more than before the move
Received(x) ==
  CountIn(Holdings(players[last.args.player]), x)
    - CountIn(Holdings(prev.players[last.args.player]), x)

\* C3: after a move on factory F with color c, F is empty, the center is its
\* previous tiles followed by the tiles of F that are not c, the other
\* factories are unchanged, and the player received exactly the c tiles of F.
C3_FactoryMove ==
  MoveFromFactory =>
    LET F == last.args.source
        c == last.args.color
    IN /\ factories[F] = <<>>
       /\ center = prev.center \o SelectSeq(prev.factories[F], LAMBDA t : t # c)
       /\ \A f \in FactoryIds \ {F} : factories[f] = prev.factories[f]
       /\ \A x \in ColorSet \cup {Marker} :
            Received(x) = IF x = c THEN CountIn(prev.factories[F], c) ELSE 0

\* a factory move that takes several tiles and sends others to a center that
\* already held displaced tiles
C3_Witness ==
  /\ MoveFromFactory
  /\ CountIn(SourceBefore, last.args.color) >= 2
  /\ Len(SourceBefore) > CountIn(SourceBefore, last.args.color)
  /\ Len(prev.center) >= 2

\* C4: after a move on the center with color c, the center is its previous
\* tiles without those of color c and without the marker, every factory is
\* unchanged, and the player received every center tile of color c.
C4_CenterMove ==
  MoveFromCenter =>
    LET c == last.args.color
    IN /\ center = SelectSeq(prev.center, LAMBDA t : t # c /\ t # Marker)
       /\ factories = prev.factories
       /\ \A x \in ColorSet :
            Received(x) = IF x = c THEN CountIn(prev.center, c) ELSE 0

\* a center move that takes several tiles, leaves others behind, while a
\* factory still holds tiles
C4_Witness ==
  /\ MoveFromCenter
  /\ CountIn(prev.center, last.args.color) >= 2
  /\ center # <<>>
  /\ \E f \in FactoryIds : factories[f] # <<>>

(***************************************************************************)
(* Round end: the move_to_wall that produced the current state.            *)
(***************************************************************************)
IsWallMove == last.op = "move_to_wall"
WallOld == prev.players[last.args.player]
WallNew == players[last.args.player]

FullLine(i) == Len(WallOld.pattern_lines[i]) = i + 1
FullRows == {i \in Rows : FullLine(i)}

\* the column of color c in row i of the fixed wall pattern
PatternColumn(i, c) == CHOOSE j \in Rows : WallPatternRows[i + 1][j + 1] = c

\* the rows that got a wall tile in this move_to_wall, and the cell of each
NewCol(i) ==
  CHOOSE j \in Rows : WallOld.wall[i][j] = None /\ WallNew.wall[i][j] # None
PlacedRows ==
  {i \in Rows : \E j \in Rows :
     WallOld.wall[i][j] = None /\ WallNew.wall[i][j] # None}

\* the wall when the tile of row i is scored: the old wall and the tiles
\* placed in the rows up to i
WallAt(i) ==
  [r \in Rows |-> IF r <= i THEN WallNew.wall[r] ELSE WallOld.wall[r]]

\* the wall points of this move_to_wall, row by row
RECURSIVE WallPoints(_)
WallPoints(i) ==
  IF i >= BoardSize THEN 0
  ELSE (IF i \in PlacedRows THEN score_tile(WallAt(i), i, NewCol(i)) ELSE 0)
         + WallPoints(i + 1)

\* the tiles of the full lines with row in S, in row order from row i on
RECURSIVE LinesFrom(_, _)
LinesFrom(i, S) ==
  IF i >= BoardSize THEN <<>>
  ELSE (IF i \in S THEN WallOld.pattern_lines[i] ELSE <<>>)
         \o LinesFrom(i + 1, S)

\* the floor line when the penalty is computed: the old floor line and the
\* full lines that found no wall cell
FloorAtPenalty == Len(WallOld.floor_line) + Len(LinesFrom(0, FullRows \ PlacedRows))

\* the floor penalty of n floor tiles, from the schedule 1,1,2,2,2,3,3
FloorCost(n) ==
  CASE n = 0 -> 0
    [] n = 1 -> 1
    [] n = 2 -> 2
    [] n = 3 -> 4
    [] n = 4 -> 6
    [] n = 5 -> 8
    [] n = 6 -> 11
    [] OTHER -> 14

\* C5: a take from the center that still holds the marker removes the marker
\* from the center, appends exactly one marker to the taker's floor line and
\* makes the taker the holder of first_player_token; any other move leaves the
\* marker and first_player_token where they were; at round end the marker on
\* a floor line counts as one floor tile of the penalty.
C5_Marker ==
  /\ IsMove =>
       LET p == last.args.player
           markers(ps, q) == CountIn(ps[q].floor_line, Marker)
       IN IF MoveFromCenter /\ In(Marker, prev.center)
          THEN /\ ~In(Marker, center)
               /\ markers(players, p) = markers(prev.players, p) + 1
               /\ \A q \in Seats \ {p} : markers(players, q) = markers(prev.players, q)
               /\ first_player_token = p
          ELSE /\ In(Marker, center) <=> In(Marker, prev.center)
               /\ \A q \in Seats : markers(players, q) = markers(prev.players, q)
               /\ first_player_token = prev.first_player_token
  /\ IsWallMove /\ In(Marker, WallOld.floor_line) =>
       WallNew.score =
         Max(0, WallOld.score + WallPoints(0)
                  - FloorCost(CountIn(WallOld.floor_line, Marker)
                                + Len(Without(WallOld.floor_line, Marker))
                                + Len(LinesFrom(0, FullRows \ PlacedRows))))

\* the marker changes hands in a later round: seat 1 held the token and seat 0
\* takes it
C5_Witness ==
  /\ MoveFromCenter
  /\ In(Marker, prev.center)
  /\ round_num >= 2
  /\ prev.first_player_token = 1
  /\ first_player_token = 0

\* C6: a round starts with the holder of first_player_token as it was at the
\* end of the previous round (seat 0 in round 1, the previous starter when
\* nobody took from the center), and after every turn the next seat in
\* round-robin order is active, whoever holds the token.
C6_TurnOrder ==
  /\ last.op = "play_round" =>
       /\ active_player = prev.first_player_token
       /\ round_num = 1 => active_player = 0
       /\ round_num > 1 /\ roundLog.prev_center_takes = 0 =>
            active_player = roundLog.prev_starter
  /\ last.op \in {"play_round_returns", "move_to_wall", "reset_factories",
                  "next_round", "play_round"} =>
       first_player_token = prev.first_player_token
  /\ IsMove =>
       /\ last.args.player = prev.active_player
       /\ active_player = (prev.active_player + 1) % num_players

\* a later round is started by a seat other than 0, who took the marker
C6_Witness ==
  /\ last.op = "play_round"
  /\ round_num > 1
  /\ active_player # 0
  /\ roundLog.prev_starter = 0

\* C7: of the k tiles taken, min(k, free spaces) go to the chosen pattern
\* line and the rest to the floor line (all k with line -1); no other
\* pattern line of the player and no other player's board changes.
C7_Placement ==
  IsMove =>
    LET p == last.args.player
        c == last.args.color
        L == last.args.line
        k == CountIn(SourceBefore, c)
        old == prev.players[p]
        new == players[p]
        marker == IF MoveFromCenter /\ In(Marker, prev.center)
                  THEN <<Marker>> ELSE <<>>
    IN /\ IF L >= 0
          THEN LET s == L + 1 - Len(old.pattern_lines[L])
                   m == Min(k, s)
               IN /\ new.pattern_lines[L] = old.pattern_lines[L] \o Repeat(c, m)
                  /\ new.floor_line = old.floor_line \o marker \o Repeat(c, k - m)
          ELSE /\ L = -1
               /\ new.floor_line = old.floor_line \o marker \o Repeat(c, k)
       /\ \A i \in Rows \ {L} : new.pattern_lines[i] = old.pattern_lines[i]
       /\ \A q \in Seats \ {p} : players[q] = prev.players[q]

\* more tiles are taken than a partly filled line has room for
C7_Witness ==
  /\ IsMove
  /\ last.args.line >= 0
  /\ prev.players[last.args.player].pattern_lines[last.args.line] # <<>>
  /\ CountIn(SourceBefore, last.args.color)
       > last.args.line + 1
           - Len(prev.players[last.args.player].pattern_lines[last.args.line])

\* some source held a tile other than the marker before the last operation
HadColorTile ==
  \/ \E f \in FactoryIds : \E k \in 1..Len(prev.factories[f]) :
       prev.factories[f][k] # Marker
  \/ \E k \in 1..Len(prev.center) : prev.center[k] # Marker

\* C8: in play_round a turn is taken exactly in the states where a source
\* holds a tile other than the marker, and play_round returns exactly in the
\* states where none does.
C8_RoundEnd ==
  /\ prev.pc = "turn" /\ HadColorTile => IsMove
  /\ prev.pc = "turn" /\ ~HadColorTile => last.op = "play_round_returns"
  /\ IsMove => prev.pc = "turn" /\ HadColorTile
  /\ last.op = "play_round_returns" =>
       /\ ~HadColorTile
       /\ \A f \in FactoryIds : factories[f] = <<>>
       /\ ~is_center_valid_choice(center)

\* play_round returns while the center still holds the marker
C8_Witness ==
  /\ last.op = "play_round_returns"
  /\ center = <<Marker>>

\* C9: in pattern mode move_to_wall sets, for every full pattern line i of
\* color c, wall cell (i, pattern column of c) to c, adds score_tile of each
\* such cell to the score, empties the line and puts its tiles in the
\* discard; lines that are not full are unchanged; the floor line is emptied
\* into the discard.
C9_EndRoundPattern ==
  IsWallMove /\ mode = "pattern" =>
    /\ \A i \in Rows :
         IF FullLine(i)
         THEN LET c == WallOld.pattern_lines[i][1]
              IN /\ WallNew.wall[i][PatternColumn(i, c)] = c
                 /\ WallNew.pattern_lines[i] = <<>>
         ELSE WallNew.pattern_lines[i] = WallOld.pattern_lines[i]
    /\ \A i, j \in Rows :
         WallNew.wall[i][j] # WallOld.wall[i][j] =>
           /\ FullLine(i)
           /\ j = PatternColumn(i, WallOld.pattern_lines[i][1])
    /\ PlacedRows = FullRows
    /\ WallNew.score =
         Max(0, WallOld.score + WallPoints(0) - FloorCost(Len(WallOld.floor_line)))
    /\ WallNew.floor_line = <<>>
    /\ discard = prev.discard \o LinesFrom(0, FullRows) \o WallOld.floor_line

\* a pattern-mode round end with two full lines, a started line that is not
\* full and tiles on the floor
C9_Witness ==
  /\ IsWallMove
  /\ mode = "pattern"
  /\ Cardinality(FullRows) >= 2
  /\ \E i \in Rows : WallOld.pattern_lines[i] # <<>> /\ ~FullLine(i)
  /\ WallOld.floor_line # <<>>
  /\ WallOld.score > 0

\* C10: every score is at least 0; move_to_wall adds the wall points, then
\* subtracts the floor penalty and floors the result at 0, changing only the
\* score of its player; no other operation lowers a score.
C10_ScoreNonNegative ==
  /\ \A p \in Seats : players[p].score >= 0
  /\ IsWallMove =>
       /\ WallNew.score =
            Max(0, WallOld.score + WallPoints(0) - FloorCost(FloorAtPenalty))
       /\ \A q \in Seats \ {last.args.player} :
            players[q].score = prev.players[q].score
  /\ ~IsWallMove =>
       \A p \in Seats : players[p].score >= prev.players[p].score

\* the penalty exceeds the old score plus the wall points of the round: the
\* score is floored at 0
C10_Witness ==
  /\ IsWallMove
  /\ WallPoints(0) > 0
  /\ WallOld.score > 0
  /\ WallOld.score + WallPoints(0) < FloorCost(FloorAtPenalty)
  /\ WallNew.score = 0

(***************************************************************************)
(* Wall invariants.                                                        *)
(***************************************************************************)
\* C11: in pattern mode every wall cell (i, j) is empty or holds
\* wall_pattern[i][j]; a filled cell keeps its tile in every step, and a
\* full pattern line is only ever moved onto an empty cell.
C11_WallPattern ==
  mode = "pattern" =>
    /\ \A p \in Seats : \A i, j \in Rows :
         players[p].wall[i][j] \in {None, WallPatternRows[i + 1][j + 1]}
    /\ \A p \in Seats : \A i, j \in Rows :
         prev.players[p].wall[i][j] # None =>
           players[p].wall[i][j] = prev.players[p].wall[i][j]
    /\ IsWallMove =>
         \A i \in FullRows :
           WallOld.wall[i][PatternColumn(i, WallOld.pattern_lines[i][1])] = None

\* a full line is moved to a wall row that already holds tiles of earlier
\* rounds
C11_Witness ==
  /\ mode = "pattern"
  /\ IsWallMove
  /\ \E i \in FullRows :
       /\ \E j \in Rows : WallOld.wall[i][j] # None
       /\ Cardinality({j \in Rows : WallNew.wall[i][j] # None}) >= 3

HasFullRow(ps) ==
  \E p \in Seats : \E i \in Rows :
    Cardinality({j \in Rows : ps[p].wall[i][j] # None}) = BoardSize

\* row + column + color bonus of a wall
EndBonus(wall) ==
  2 * Cardinality({i \in Rows : \A j \in Rows : wall[i][j] # None})
    + 7 * Cardinality({j \in Rows : \A i \in Rows : wall[i][j] # None})
    + 10 * Cardinality({c \in ColorSet :
             CountIn(Flatten([k \in 1..BoardSize |->
                       [j \in 1..BoardSize |-> wall[k - 1][j - 1]]]), c) = 5})

\* C14: play_game tests for the end of the game only between rounds: a round
\* starts only while no player has a full wall row, a round that has started
\* is played and ended for every player even when a row is completed in it,
\* and once a row is full after end_round no round follows: the end-game
\* bonus is added once to every score and play_game returns.
C14_GameEnd ==
  /\ last.op = "play_round" => prev.pc = "loop" /\ ~HasFullRow(prev.players)
  /\ prev.pc = "loop" /\ HasFullRow(prev.players) => last.op = "end_game_scoring"
  /\ last.op = "end_game_scoring" =>
       /\ prev.pc = "loop"
       /\ HasFullRow(prev.players)
       /\ pc = "done"
       /\ \A p \in Seats :
            /\ players[p].score = prev.players[p].score + EndBonus(prev.players[p].wall)
            /\ players[p].wall = prev.players[p].wall
  /\ pc = "done" => last.op = "end_game_scoring"
  /\ prev.pc \in {"turn", "end_round", "round_done"} =>
       last.op \in {"execute_move", "choose_move", "play_round_returns",
                    "move_to_wall", "reset_factories", "next_round"}

\* the game ends on a row completed by seat 1 only, and a bonus is paid
C14_Witness ==
  /\ last.op = "end_game_scoring"
  /\ \A i \in Rows : \E j \in Rows : prev.players[0].wall[i][j] = None
  /\ \E p \in Seats : players[p].score > prev.players[p].score
  /\ round_num >= 3

\* every seat is played by the dummy strategy
AllDummy == \A p \in Seats : ai[p] = "dummy"
DummyGame == num_players = 2 /\ mode = "pattern" /\ AllDummy

\* the tiles still to be taken in the running round
TilesOnOffer ==
  SumSeq([f \in 1..Len(factories) |-> Len(factories[f])]) + TilesHeld(center)

\* how far play_game has come: the round, then the position inside the round
Progress ==
  1000 * round_num
    + (CASE pc = "new" -> 0
         [] pc = "loop" -> 1
         [] pc = "turn" -> 2 + (NumFactories * FactorySize - TilesOnOffer)
         [] pc = "end_round" -> 100 + wallIdx
         [] pc = "round_done" -> 200
         [] OTHER -> 900)

\* play_game has a next step to take
CanStep ==
  \/ pc \in {"new", "turn", "end_round", "round_done"}
  \/ pc = "loop" /\ (HasFullRow(players) \/ round_num <= MaxRounds)

C16_Deterministic ==
  IsMove /\ ai[last.args.player] = "dummy" =>
    \A h \in HashSeeds :
      LET mv == dummy_algorithm(prev.players[last.args.player],
                                prev.factories, prev.center, mode, h)
      IN /\ mv.source = last.args.source
         /\ mv.color = last.args.color
         /\ mv.line = last.args.line

(***************************************************************************)
(* GameLogic functions.                                                    *)
(***************************************************************************)
\* the occupied cells that follow (row, col) without a gap, by direction
RunLeft(wall, row, col) ==
  Cardinality({j \in 0..(col - 1) : \A x \in j..(col - 1) : wall[row][x] # None})
RunRight(wall, row, col) ==
  Cardinality({j \in (col + 1)..(BoardSize - 1) :
                 \A x \in (col + 1)..j : wall[row][x] # None})
RunUp(wall, row, col) ==
  Cardinality({i \in 0..(row - 1) : \A x \in i..(row - 1) : wall[x][col] # None})
RunDown(wall, row, col) ==
  Cardinality({i \in (row + 1)..(BoardSize - 1) :
                 \A x \in (row + 1)..i : wall[x][col] # None})

ScoreCall == call.fn = "score_tile"
RowRun == RunLeft(call.wall, call.row, call.col) + RunRight(call.wall, call.row, call.col)
ColRun == RunUp(call.wall, call.row, call.col) + RunDown(call.wall, call.row, call.col)

\* C17: score_tile returns 1 plus the occupied cells that follow the cell
\* without a gap to the left, right, above and below: 1 for an isolated
\* tile, 3 with one neighbour on each side in the row or in the column, 5
\* with the four direct neighbours.
C17_ScoreTile ==
  ScoreCall =>
    LET l == RunLeft(call.wall, call.row, call.col)
        r == RunRight(call.wall, call.row, call.col)
        u == RunUp(call.wall, call.row, call.col)
        d == RunDown(call.wall, call.row, call.col)
    IN /\ call.result = 1 + l + r + u + d
       /\ l + r + u + d = 0 => call.result = 1
       /\ l = 1 /\ r = 1 /\ u + d = 0 => call.result = 3
       /\ u = 1 /\ d = 1 /\ l + r = 0 => call.result = 3
       /\ l = 1 /\ r = 1 /\ u = 1 /\ d = 1 => call.result = 5

\* a run of two to the left that ends at a gap with a tile beyond it, and a
\* tile above
C17_Witness ==
  /\ ScoreCall
  /\ call.col = 4
  /\ RunLeft(call.wall, call.row, call.col) = 2
  /\ call.wall[call.row][0] # None
  /\ RunUp(call.wall, call.row, call.col) >= 1
  /\ call.result >= 4

\* C18: score_tile adds one extra point to 1 + the neighbour count when the
\* tile has a neighbour in its row and a neighbour in its column: left,
\* right and upper neighbour occupied and lower neighbour empty scores 5.
C18_DualAxisBonus ==
  ScoreCall /\ RowRun > 0 /\ ColRun > 0 =>
    call.result = 1 + RowRun + ColRun + 1

\* C19: calculate_floor_penalty(n) is the sum of the first min(n, 7) entries
\* of 1,1,2,2,2,3,3: 0, 1, 4, 14 for n = 0, 1, 3, 7, never less than for a
\* smaller n, and 14 from n = 7 on.
C19_FloorPenalty ==
  call.fn = "calculate_floor_penalty" =>
    LET n == call.num_tiles
    IN /\ call.result = FloorCost(n)
       /\ n = 0 => call.result = 0
       /\ n = 1 => call.result = 1
       /\ n = 3 => call.result = 4
       /\ n = 7 => call.result = 14
       /\ n >= 7 => call.result = 14
       /\ \A m \in 0..n : calculate_floor_penalty(m) <= call.result

\* a call with more tiles than the floor line has penalty positions
C19_Witness ==
  /\ call.fn = "calculate_floor_penalty"
  /\ call.num_tiles > Len(FLOOR_PENALTIES)
  /\ call.result = 14

\* C20: calculate_end_game_bonus returns 2 per full wall row, 7 per full
\* wall column and 10 per color on five cells, each counted on its own.
C20_EndGameBonus ==
  call.fn = "calculate_end_game_bonus" =>
    LET w == call.wall
        cells(c) == {ij \in Rows \X Rows : w[ij[1]][ij[2]] = c}
        rows == {i \in Rows : Cardinality({j \in Rows : w[i][j] # None}) = BoardSize}
        cols == {j \in Rows : Cardinality({i \in Rows : w[i][j] # None}) = BoardSize}
        colors == {c \in ColorSet : Cardinality(cells(c)) = 5}
    IN call.result = <<2 * Cardinality(rows), 7 * Cardinality(cols),
                       10 * Cardinality(colors)>>

\* two full rows, one full column and one full color on a wall that is not
\* full
C20_Witness ==
  /\ call.fn = "calculate_end_game_bonus"
  /\ call.result = <<4, 7, 10>>

(***************************************************************************)
(* get_valid_lines.                                                        *)
(***************************************************************************)
ValidLinesCall(m) == call.fn = "get_valid_lines" /\ call.mode = m

\* C21: in pattern mode get_valid_lines returns exactly the lines i that are
\* empty or hold fewer than i+1 tiles, all of the color, and whose wall row
\* does not hold the color; a full line and a line of another color are
\* never returned.
C21_ValidLinesPattern ==
  ValidLinesCall("pattern") =>
    /\ \A i \in Rows :
         In(i, call.result) <=>
           LET line == call.player.pattern_lines[i]
           IN /\ \/ line = <<>>
                 \/ /\ \A k \in 1..Len(line) : line[k] = call.color
                    /\ Len(line) < i + 1
              /\ \A j \in Rows : call.player.wall[i][j] # call.color
    /\ \A k \in 1..Len(call.result) : \A l \in 1..Len(call.result) :
         k < l => call.result[k] < call.result[l]

\* a full line of the color whose wall row lacks the color is left out while
\* other lines are returned
C21_Witness ==
  /\ ValidLinesCall("pattern")
  /\ call.player.pattern_lines[call.line] = Repeat(call.color, call.line + 1)
  /\ \A j \in Rows : call.player.wall[call.line][j] # call.color
  /\ ~In(call.line, call.result)
  /\ Len(call.result) >= 3

\* an empty cell of wall row i in a column that does not hold the color
Placeable(wall, i, color) ==
  \E j \in Rows : wall[i][j] = None /\ \A k \in Rows : wall[k][j] # color

\* C22: in free mode get_valid_lines returns line i only if wall row i does
\* not hold the color and has an empty cell in a column without the color.
C22_ValidLinesFree ==
  ValidLinesCall("free") =>
    \A i \in Rows :
      In(i, call.result) =>
        /\ \A j \in Rows : call.player.wall[i][j] # call.color
        /\ Placeable(call.player.wall, i, call.color)


(***************************************************************************)
(* choose_move: the call that produced the current state.                  *)
(***************************************************************************)
IsChoice == last.op = "choose_move" /\ call.fn = "choose_move"
\* the game the call started from
ChoiceSeat == prev.players[last.args.player]
TilesOnOfferBefore ==
  \/ \E f \in 1..Len(prev.factories) : prev.factories[f] # <<>>
  \/ Without(prev.center, Marker) # <<>>

\* a move the rules allow in the game the call started from
LegalMove(mv) ==
  /\ mv.color # Marker
  /\ In(mv.color, SourceTiles(prev.factories, prev.center, mv.source))
  /\ \/ mv.line = -1
     \/ In(mv.line, get_valid_lines(ChoiceSeat, mv.color, mode))

\* C23: whenever some source holds a non-marker tile, choose_move of each of
\* the five strategies returns a legal move: a color other than the marker
\* that the source holds, and a line that is -1 or in get_valid_lines.
C23_LegalMove ==
  (IsChoice /\ TilesOnOfferBefore) =>
    IF IsRaise(call.result) THEN FALSE ELSE LegalMove(call.result)

\* C24: when no factory holds a tile and the center holds no tile other
\* than the marker, choose_move of every strategy raises RuntimeError
\* ("No valid moves available") and returns no move.
C24_NoValidMoves ==
  (IsChoice /\ ~TilesOnOfferBefore) => call.result = NoMove

\* the minmax seat, facing an AzulCPU, is asked for a move before setup_game:
\* the factories are empty and the center holds the marker alone
C24_Witness ==
  /\ IsChoice
  /\ ~TilesOnOfferBefore
  /\ call.strategy = "minmax"
  /\ \A p \in Seats : ai[p] # "human"
  /\ prev.center = <<Marker>>
  /\ pc = "RuntimeError"

TilesOf(src, color) ==
  Len(Only(SourceTiles(prev.factories, prev.center, src), color))

\* the moves whose taken tiles all fit into a legal pattern line
FittingMoves ==
  {mv \in [source : {CenterId} \cup (1..Len(prev.factories)),
           color : ColorSet, line : Rows] :
     /\ TilesOf(mv.source, mv.color) > 0
     /\ In(mv.line, get_valid_lines(ChoiceSeat, mv.color, mode))
     /\ TilesOf(mv.source, mv.color)
          <= mv.line + 1 - Len(ChoiceSeat.pattern_lines[mv.line])}

IsGreedyChoice == IsChoice /\ call.strategy = "greedy"

\* C26: whenever some move exists whose taken tiles all fit into a legal
\* pattern line, greedy returns such a move, and no such move of any source
\* takes more tiles than the one returned.
C26_GreedyMax ==
  (IsGreedyChoice /\ FittingMoves # {}) =>
    /\ call.result \in FittingMoves
    /\ \A mv \in FittingMoves :
         TilesOf(mv.source, mv.color)
           <= TilesOf(call.result.source, call.result.color)

\* greedy takes two or more tiles from the center although a factory offers
\* a fitting move with fewer tiles
C26_Witness ==
  /\ IsGreedyChoice
  /\ call.result \in FittingMoves
  /\ call.result.source = CenterId
  /\ TilesOf(CenterId, call.result.color) >= 2
  /\ \E mv \in FittingMoves :
       /\ mv.source # CenterId
       /\ TilesOf(mv.source, mv.color) < TilesOf(CenterId, call.result.color)

(***************************************************************************)
(* The rating systems.                                                     *)
(***************************************************************************)
\* update_ratings has returned
Returned == upd.pc = "idle" /\ upd.n > 0
EloReturned == Returned /\ rs.kind = "elo"

\* the record _get_rating hands to update_ratings: the stored one, or the
\* default it creates
RecordAtCall(name) ==
  IF name \in DOMAIN upd.pre.rs.ratings THEN upd.pre.rs.ratings[name]
  ELSE NewEloRecord(upd.pre.rs)

RatingChange(name) == rs.ratings[name].rating - RecordAtCall(name).rating
ChangeSum == RatingChange(upd.first) + RatingChange(upd.second)
EqualK == RecordAtCall(upd.first).k_factor = RecordAtCall(upd.second).k_factor
EqualRatings == RecordAtCall(upd.first).rating = RecordAtCall(upd.second).rating

\* the unit in the last place of a float
Ulp(x) == 2^Max(BitLen(Abs(x)) - Precision, 0)
LargerRating ==
  Max(Max(RecordAtCall(upd.first).rating, RecordAtCall(upd.second).rating),
      Max(rs.ratings[upd.first].rating, rs.ratings[upd.second].rating))

BeforeApply ==
  \/ upd.pc \in {"get_first", "get_second", "apply"}
  \/ upd.pc \in {"open", "dump"} /\ upd.ret \in {"get_second", "apply"}
GamesCompleted(name) ==
  upd.took[name] - (IF BeforeApply /\ name \in {upd.first, upd.second} THEN 1 ELSE 0)

\* max(min_k, initial_k - k_decrease * g) in whole quanta
KAfter(g) == Max(rs.min_k, rs.initial_k - (rs.k_decrease \div One) * (g * One))

\* C28: in EloSystem the K-factor of a strategy that has taken part in g
\* calls is max(min_k, initial_k - k_decrease * g); the rating change of its
\* (g+1)-th game is made with the K-factor reached after g games; the
\* K-factor does not increase in a call and is never below min_k
C28_KFactor ==
  rs.kind = "elo" =>
    /\ \A name \in DOMAIN rs.ratings :
         /\ rs.ratings[name].k_factor = KAfter(GamesCompleted(name))
         /\ rs.ratings[name].k_factor >= rs.min_k
    /\ Returned =>
         LET a == RecordAtCall(upd.first)
             b == RecordAtCall(upd.second)
             e1 == expected1(a.rating, b.rating)
         IN /\ rs.ratings[upd.first].rating =
                 FAdd(a.rating, FMul(KAfter(upd.took[upd.first] - 1),
                                     FSub(actual1(upd.score), e1)))
            /\ rs.ratings[upd.second].rating =
                 FAdd(b.rating, FMul(KAfter(upd.took[upd.second] - 1),
                                     FSub(actual2(upd.score), FSub(One, e1))))
            /\ rs.ratings[upd.first].k_factor <= a.k_factor
            /\ rs.ratings[upd.second].k_factor <= b.k_factor

\* a strategy whose K-factor is held at min_k, above the linear value
C28_Witness ==
  /\ EloReturned
  /\ \E name \in {upd.first, upd.second} :
       /\ rs.ratings[name].k_factor = rs.min_k
       /\ rs.initial_k - (rs.k_decrease \div One) * (upd.took[name] * One) < rs.min_k

\* the system keeps head-to-head results
RecordsResults ==
  rs.kind = "glicko2" \/ (rs.kind = "elo" /\ rs.save_results_enabled)

GamesAtCall(name) == GamesIn(upd.pre.rs.ratings, name)

RecordsAtCall ==
  [upd.pre.rs EXCEPT
     !.ratings = (upd.first :> RecordAtCall(upd.first))
                 @@ (upd.second :> RecordAtCall(upd.second)) @@ @]

\* the files once the call of update_ratings has returned
FilesAfterCall ==
  FilesOf(elo_apply(RecordsAtCall, upd.first, upd.second, upd.score))

\* C30: during and after a call of EloSystem.update_ratings the two files
\* hold either what they held at the call or what they hold at its return
C30_AtomicPersistence ==
  (rs.kind = "elo" /\ upd.n > 0 /\ upd.pc # "reloaded") =>
    files \in {upd.pre.files, FilesAfterCall}

\* a new instance has been constructed over the files of the one before
Reloaded == upd.pc = "reloaded"

\* C31: a new instance constructed with reset=false over the files written
\* by a previous instance has the rating records and the head-to-head
\* counters of that instance
C31_ReloadRestores ==
  Reloaded =>
    /\ rs.ratings = upd.pre.rs.ratings
    /\ rs.matchups = upd.pre.rs.matchups

(***************************************************************************)
(* The strategies, move by move.                                           *)
(***************************************************************************)
\* the moves of a color a source holds into a pattern line that is legal for
\* it, fitting or not
LegalLineMoves ==
  {mv \in [source : {CenterId} \cup (1..Len(prev.factories)),
           color : ColorSet, line : Rows] :
     /\ TilesOf(mv.source, mv.color) > 0
     /\ In(mv.line, get_valid_lines(ChoiceSeat, mv.color, mode))}

\* the free spaces of the line the move goes to, and the tiles it takes
\* beyond them
FreeSpaces(mv) == mv.line + 1 - Len(ChoiceSeat.pattern_lines[mv.line])
Overflow(mv) == TilesOf(mv.source, mv.color) - FreeSpaces(mv)

\* the moves to the floor line
FloorMoves ==
  {mv \in [source : {CenterId} \cup (1..Len(prev.factories)),
           color : ColorSet, line : {-1}] :
     TilesOf(mv.source, mv.color) > 0}

\* C32: when no overflow-free move exists but some color of some source has
\* a legal pattern line, greedy returns a pattern-line move whose overflow
\* is the least over all legal-line moves; only when no color of any source
\* has a legal pattern line it returns the floor move with the fewest tiles.
C32_GreedyLeastOverflow ==
  (IsGreedyChoice /\ TilesOnOfferBefore /\ FittingMoves = {}) =>
    IF LegalLineMoves # {}
    THEN /\ call.result \in LegalLineMoves
         /\ \A mv \in LegalLineMoves : Overflow(call.result) <= Overflow(mv)
    ELSE /\ call.result \in FloorMoves
         /\ \A mv \in FloorMoves :
              TilesOf(call.result.source, call.result.color)
                <= TilesOf(mv.source, mv.color)

IsDummyChoice == IsChoice /\ call.strategy = "dummy"
\* the place of a source in factories + [center]
SourceRank(src) == IF src = CenterId THEN Len(prev.factories) + 1 ELSE src

\* C33: dummy returns a move from the first source, in the order factory
\* 1..N and then the center, that has a color with a legal line; the line is
\* the highest-index member of get_valid_lines for the returned color; it
\* returns the floor line only when no color of any source has a legal line.
C33_DummyFirstSource ==
  (IsDummyChoice /\ TilesOnOfferBefore) =>
    IF LegalLineMoves # {}
    THEN /\ call.result \in LegalLineMoves
         /\ \A mv \in LegalLineMoves :
              /\ SourceRank(call.result.source) <= SourceRank(mv.source)
              /\ (mv.source = call.result.source /\ mv.color = call.result.color)
                   => mv.line <= call.result.line
    ELSE call.result \in FloorMoves

\* dummy passes over an emptied factory and returns from the next source,
\* although a later source has a legal-line move too, and the color it
\* returns has a lower legal line as well
C33_Witness ==
  /\ IsDummyChoice
  /\ call.result \in LegalLineMoves
  /\ \E f \in 1..Len(prev.factories) :
       /\ prev.factories[f] = <<>>
       /\ SourceRank(f) < SourceRank(call.result.source)
  /\ \E mv \in LegalLineMoves :
       SourceRank(mv.source) > SourceRank(call.result.source)
  /\ \E mv \in LegalLineMoves :
       /\ mv.source = call.result.source
       /\ mv.color = call.result.color
       /\ mv.line < call.result.line

IsSmartChoice == IsChoice /\ call.strategy = "smart"
\* the free spaces a fitting move leaves in its line
Whitespace(mv) == FreeSpaces(mv) - TilesOf(mv.source, mv.color)
\* the fitting moves that leave the fewest free spaces
MinimalWhitespaceMoves ==
  {mv \in FittingMoves : \A o \in FittingMoves : Whitespace(mv) <= Whitespace(o)}
\* those of them that land next to a tile of the wall
AdjacentMoves ==
  {mv \in MinimalWhitespaceMoves :
     has_adjacent(ChoiceSeat, mv.line, mv.color, mode)}

\* C34: whenever an overflow-free move exists, smart returns an
\* overflow-free move of minimal whitespace; if some minimal-whitespace move
\* lands on a wall cell with an occupied horizontal or vertical neighbour,
\* the move returned is such a move, otherwise it is a minimal-whitespace
\* move with the most tiles.
C34_SmartChoice ==
  (IsSmartChoice /\ FittingMoves # {}) =>
    /\ call.result \in MinimalWhitespaceMoves
    /\ IF AdjacentMoves # {}
       THEN call.result \in AdjacentMoves
       ELSE \A mv \in MinimalWhitespaceMoves :
              TilesOf(mv.source, mv.color)
                <= TilesOf(call.result.source, call.result.color)

\* smart returns a move next to a tile of the wall although a move of the
\* same whitespace without such a neighbour takes more tiles
C34_Witness ==
  /\ IsSmartChoice
  /\ call.result \in AdjacentMoves
  /\ \E mv \in MinimalWhitespaceMoves \ AdjacentMoves :
       TilesOf(mv.source, mv.color)
         > TilesOf(call.result.source, call.result.color)

IsStrategicChoice == IsChoice /\ call.strategy = "strategic"
\* the minimal-whitespace moves whose color has its cell of the wall
\* pattern on the diagonal: the column of the color in the row of the line
\* is the index of the line
DiagonalMoves ==
  {mv \in MinimalWhitespaceMoves :
     /\ mode = "pattern"
     /\ \E col \in Rows :
          WallPattern(mode)[mv.line][col] = mv.color /\ col = mv.line}

\* C35: whenever an overflow-free move exists, strategic returns an
\* overflow-free move of minimal whitespace; in round 1, if some
\* minimal-whitespace move lands on the wall diagonal for its color, the move
\* returned is such a diagonal move, whichever source offers it, and no
\* later candidate of the same whitespace replaces it.
C35_StrategicDiagonal ==
  (IsStrategicChoice /\ FittingMoves # {}) =>
    /\ call.result \in MinimalWhitespaceMoves
    /\ (round_num = 1 /\ DiagonalMoves # {}) => call.result \in DiagonalMoves

\* in round 1 strategic returns a diagonal move of a factory although a
\* later source offers a move of the same whitespace with more tiles
C35_Witness ==
  /\ IsStrategicChoice
  /\ round_num = 1
  /\ call.result \in DiagonalMoves
  /\ \E mv \in MinimalWhitespaceMoves \ DiagonalMoves :
       /\ SourceRank(mv.source) > SourceRank(call.result.source)
       /\ TilesOf(mv.source, mv.color)
            > TilesOf(call.result.source, call.result.color)

\* minmax looks ahead: the other seat is an AzulCPU and get_efficient_moves
\* offers a candidate, so the loop over the candidates runs (cpu.py 563)
IsLookahead ==
  /\ IsChoice
  /\ call.strategy = "minmax"
  /\ ai[(last.args.player + 1) % NumPlayers] # "human"
  /\ get_efficient_moves(ChoiceSeat, DummySources(prev.factories, prev.center),
                         prev.factories, prev.center, mode) # <<>>
\* the simulation of the opponent's reply to a candidate fails
SimulationFails == CtorOutcome(NumPlayers) # "returned"

ColorCount(c) ==
  CountIn(bag, c) + CountIn(discard, c) + CountIn(center, c)
    + SumFn([f \in FactoryIds |-> CountIn(factories[f], c)])
    + SumFn([p \in Seats |->
         CountIn(players[p].floor_line, c)
           + SumFn([i \in Rows |-> CountIn(players[p].pattern_lines[i], c)])])

\* C37: from setup_game on, the colored tiles of the bag, the discard, the
\* factories, the center, the pattern lines and the floor lines, the wall
\* cells left out, are 20 of each of the five colors, 100 in all: no move,
\* wall placement, floor clearing or refill creates or destroys one.
C37_ColoredTiles ==
  pc # "new" => \A c \in ColorSet : ColorCount(c) = TilesPerColor

\* the discard has been recycled into a bag too short for the factories,
\* with tiles on a wall
C37_Witness ==
  /\ last.op = "reset_factories"
  /\ Len(prev.bag) < NumFactories * FactorySize
  /\ TilesHeld(prev.discard) > 0
  /\ \E p \in Seats : WallCells(players[p].wall) > 0
  /\ \A c \in ColorSet : ColorCount(c) = TilesPerColor

RoundStart == last.op \in {"setup_game", "reset_factories"}

\* C38: for 2 to 5 players every factory holds 4 tiles at the start of
\* every round, after setup_game and after every reset_factories: the bag,
\* once the discard is recycled into it when it is short, holds 4 tiles for
\* each factory.
C38_FullFactories ==
  RoundStart => \A f \in FactoryIds : Len(factories[f]) = FactorySize

\* five players: the bag was too short for the eleven factories, the
\* discard has been recycled into it and every factory holds 4 tiles
C38_Witness ==
  /\ last.op = "reset_factories"
  /\ num_players = 5
  /\ Len(prev.bag) < NumFactories * FactorySize
  /\ discard # prev.discard
  /\ \A f \in FactoryIds : Len(factories[f]) = FactorySize

MarkersOnFloors ==
  SumFn([p \in Seats |-> CountIn(players[p].floor_line, Marker)])
\* a round is being played, or play_round has just returned
InRound == pc = "turn" \/ (pc = "end_round" /\ wallIdx = 0)
\* end_round is at work: floor lines are being cleared and the center has
\* not been reset yet
EndingRound == pc = "end_round" /\ wallIdx > 0

AskedInRound == IsChoice /\ prev.pc = "turn"
\* the non-marker tiles of the factories and the center before the move
TilesOnOfferWere ==
  SumSeq([f \in 1..Len(prev.factories) |-> Len(prev.factories[f])])
    + TilesHeld(prev.center)

\* C40: every play_round terminates: whenever play_round asks for a move the
\* strategy of the seat returns a move that takes at least one tile, every
\* turn lowers the number of non-marker tiles of the factories and the
\* center, and a round ends after at most 4 x (number of factories) turns.
C40_RoundTerminates ==
  /\ AskedInRound =>
       /\ ~IsRaise(call.result)
       /\ TilesOf(call.result.source, call.result.color) >= 1
  /\ IsMove => TilesOnOffer < TilesOnOfferWere
  /\ roundLog.turns <= FactorySize * NumFactories

====
